---- MODULE Spec2Model ----
(***************************************************************************)
(* The agentic tool-call loop of the MCP chat client: ChatSession          *)
(* (src/client/chat_session.py), ToolHandler (src/client/tool_handler.py)  *)
(* and the registry client MCPToolAgent (src/tool_agent.py).               *)
(*                                                                         *)
(* Text is a sequence of tokens, each token a pair <<kind, value>>:        *)
(*   <<"ch","{">>, <<"ch","}">>   the brace characters find/rfind look for *)
(*   <<"ch","w">>                 a run of prose without braces            *)
(*   <<"tool_request",v>>, <<"tool_name",v>>, <<"k",v>>                    *)
(*                                a JSON member  "key": "v"                *)
(*   <<"arguments",":">>          the key "arguments", its value follows   *)
(* The texts of system messages, errors and prompts are tokens as well.    *)
(*                                                                         *)
(* Specifications:                                                         *)
(*   Spec         one ChatSession over its registry client, turn by turn   *)
(*   SpecLoop     the same under a model that always asks for a tool       *)
(*   SpecExtract  one stream cycle over every assistant text               *)
(*   SpecAgent    the registry client called directly                      *)
(*   SpecServer   api_server: two HTTP requests over the global client     *)
(*   SpecStream   one streamed turn with a consumer that keeps iterating   *)
(*   SpecFrontEnds  the console client, or the HTTP server                 *)
(*   SpecConnect  connect and close of the registry client                 *)
(*   SpecStreamResponse  api_server: the body of a streaming response      *)
(*   SpecHandlers the handlers of the client and of the legacy session     *)
(*   SpecEquiv    a buffered and a streaming session over the same LLM     *)
(*   SpecRegistry every operation of the registry client, in every order   *)
(*   SpecGetClient  api_server: interleaved calls of get_mcp_client        *)
(***************************************************************************)
EXTENDS Integers, Sequences, FiniteSets, TLC

VARIABLES
    messages,          \* ChatSession.messages: the history, a sequence of [role, content]
    session,           \* MCPToolAgent.session is set (TRUE) or None (FALSE)
    tools_cache,       \* MCPToolAgent.tools_cache: tool name -> schema
    caller,            \* the entrypoint the session's caller drives it through
    pc,                \* position of the turn in flight
    script,            \* chunks the LLM stream of this cycle has still to produce
    response_content,  \* accumulated text of the cycle in progress
    handler,           \* content of the response handler / collector of the turn
    yielded,           \* chunks the generator has yielded to its consumer this turn
    console,           \* what ConsoleFormatter printed this turn (chunks, errors)
    ret,               \* value returned by the buffered call: <<>> none, <<text>>
    ended,             \* how the last turn ended
    reqLen,            \* Len(messages) at each LLM stream request of the turn
    turnLen,           \* Len(messages) when the turn was called
    calls,             \* registry round-trips of the turn, in order
    ops,               \* calls made on the registry client by a direct caller,
                       \* each with what it returned or raised
    requests,          \* api_server: the ChatSession of each HTTP request in flight
    read_stream,       \* MCPToolAgent.read_stream is set (TRUE) or None (FALSE)
    write_stream,      \* MCPToolAgent.write_stream is set (TRUE) or None (FALSE)
    exit_stack,        \* MCPToolAgent.exit_stack: the contexts entered, in order
    sse_events,        \* api_server.stream_response: the events it has yielded
    buffered           \* a second session, given what the first is given and
                       \* driven through process_message with a response handler

vars == <<messages, session, tools_cache, caller, pc, script, response_content,
          handler, yielded, console, ret, ended, reqLen, turnLen, calls, ops,
          requests, read_stream, write_stream, exit_stack, sse_events, buffered>>

\* The state of the one ChatSession a console client drives, and the state
\* outside it.
chat == <<messages, caller, pc, script, response_content, handler, yielded, console,
          ret, ended, reqLen, turnLen, calls>>
transport == <<read_stream, write_stream, exit_stack>>
others == <<ops, requests, read_stream, write_stream, exit_stack, sse_events, buffered>>

(***************************************************************************)
(* Bounds                                                                  *)
(***************************************************************************)
MaxMessages == 8   \* messages in the history of a session
MaxProse == 2      \* tokens of prose before and after an embedded JSON object
MaxOps == 4        \* calls a direct caller makes on the registry client

(***************************************************************************)
(* Tokens and texts                                                        *)
(***************************************************************************)
LB == <<"ch", "{">>
RB == <<"ch", "}">>
W == <<"ch", "w">>
TR(v) == <<"tool_request", v>>
TN(v) == <<"tool_name", v>>
KV == <<"k", "v">>
ARGS == <<"arguments", ":">>

MemberKeys == {"tool_request", "tool_name", "k"}

\* The value of a plain member as json.loads returns it.
Str(v) == <<<<"str", v>>>>

\* The text a stream accumulates: the concatenation of its chunks.
RECURSIVE Concat(_)
Concat(chunks) == IF chunks = <<>> THEN <<>> ELSE Head(chunks) \o Concat(Tail(chunks))

\* str.find: index (from 0) of the first occurrence, -1 when there is none.
find(text, ch) ==
    IF \E i \in 1..Len(text) : text[i] = ch
    THEN (CHOOSE i \in 1..Len(text) :
              text[i] = ch /\ \A j \in 1..(i - 1) : text[j] # ch) - 1
    ELSE -1

\* Mutant: str.find in the place of str.rfind.
rfind_First(text, ch) ==
    IF \E i \in 1..Len(text) : text[i] = ch
    THEN (CHOOSE i \in 1..Len(text) :
              text[i] = ch /\ \A j \in 1..(i - 1) : text[j] # ch) - 1
    ELSE -1

\* str.rfind: index (from 0) of the last occurrence, -1 when there is none.
rfind(text, ch) ==
    IF \E i \in 1..Len(text) : text[i] = ch
    THEN (CHOOSE i \in 1..Len(text) :
              text[i] = ch /\ \A j \in (i + 1)..Len(text) : text[j] # ch) - 1
    ELSE -1

\* text[a:b] with 0 <= a <= b.
Slice(text, a, b) == SubSeq(text, a + 1, b)

EmptyObj == [x \in {} |-> <<>>]
Put(obj, k, v) == [x \in (DOMAIN obj) \cup {k} |-> IF x = k THEN v ELSE obj[x]]

\* The members of a JSON object from position i of s on, up to its closing
\* brace: [ok, next, obj], next the position after the closing brace.
RECURSIVE ParseMembers(_, _, _)
ParseMembers(s, i, obj) ==
    IF i > Len(s) THEN [ok |-> FALSE, next |-> i, obj |-> obj]
    ELSE IF s[i] = RB THEN [ok |-> TRUE, next |-> i + 1, obj |-> obj]
    ELSE IF s[i][1] \in MemberKeys
         THEN ParseMembers(s, i + 1, Put(obj, s[i][1], Str(s[i][2])))
    ELSE IF s[i] = ARGS /\ i + 1 <= Len(s) /\ s[i + 1] = LB
         THEN LET r == ParseMembers(s, i + 2, EmptyObj)
              IN  IF r.ok
                  THEN ParseMembers(s, r.next,
                                    Put(obj, "arguments", SubSeq(s, i + 1, r.next - 1)))
                  ELSE [ok |-> FALSE, next |-> r.next, obj |-> obj]
    ELSE [ok |-> FALSE, next |-> i, obj |-> obj]

\* json.loads of a string that starts with '{': the object, or ok = FALSE for
\* json.JSONDecodeError (prose inside, unbalanced braces, trailing data).
json_loads(s) ==
    IF s = <<>> \/ s[1] # LB THEN [ok |-> FALSE, obj |-> EmptyObj]
    ELSE LET r == ParseMembers(s, 2, EmptyObj)
         IN  IF r.ok /\ r.next = Len(s) + 1
             THEN [ok |-> TRUE, obj |-> r.obj]
             ELSE [ok |-> FALSE, obj |-> EmptyObj]

(***************************************************************************)
(* The registry client (MCPToolAgent) and the remote registry              *)
(***************************************************************************)
\* The tools the remote MCP server registers.
RegisteredTools == {Str("add")}

\* What a round-trip to the remote server does: it answers, it answers with
\* content items that are not text, or the transport raises.
Remote == {"ok", "nontext", "raise"}

\* The schema get_tool_schema builds from the tool list_tools returned.
SchemaOf(tool_name) ==
    [name |-> tool_name, description |-> "description", parameters |-> "inputSchema"]

\* One round-trip to the remote server, as recorded in calls: the request
\* and whether the server answered it (call_tool: with text items only, or
\* with items that are not text) or the call raised.
ListTools(did) == [op |-> "list_tools", name |-> <<>>, args |-> <<>>, did |-> did]
CallTool(tool_name, arguments, did) ==
    [op |-> "call_tool", name |-> tool_name, args |-> arguments, did |-> did]

Raise(e, cache, made) ==
    [raised |-> TRUE, value |-> <<>>, err |-> e, cache |-> cache, calls |-> made]
Return(v, cache, made) ==
    [raised |-> FALSE, value |-> v, err |-> <<>>, cache |-> cache, calls |-> made]

NotConnected == <<<<"exc", "Not connected to MCP server">>>>
ConnectFailed(cause) == <<<<"exc", "Failed to connect to MCP server: ">>, <<"exc", cause>>>>

\* The transport state of a client: its session, its streams, and the
\* contexts its exit stack holds.
ClientOf(s, r, w, stack) ==
    [session |-> s, read_stream |-> r, write_stream |-> w, exit_stack |-> stack]
Client == ClientOf(session, read_stream, write_stream, exit_stack)
\* MCPToolAgent.__init__: nothing is set, nothing is entered.
Unconnected == ClientOf(FALSE, FALSE, FALSE, <<>>)
\* The contexts one successful connect enters.
Connected == <<"stdio_client", "ClientSession">>

\* Mutant: close() tears down only a client that has a session.
close_OnlyWithSession(c) ==
    IF c.session THEN [client |-> Unconnected, raised |-> FALSE]
    ELSE [client |-> c, raised |-> FALSE]

\* MCPToolAgent.close: "if self.exit_stack" holds for every client (the
\* stack is an object, and an object without __bool__ or __len__ is true);
\* aclose() leaves every context the stack holds, none when it holds none,
\* and the three fields are unset.
close(c) == [client |-> Unconnected, raised |-> FALSE]

\* How the start of the remote process and the handshake can go: well, or
\* stdio_client, ClientSession or session.initialize() raises.
ConnectOutcomes == {"ok", "stdio_client raises", "ClientSession raises", "initialize raises"}

\* The client when the try block of connect is left, normally or by the
\* exception: the streams are set once stdio_client is entered, the session
\* once ClientSession is entered.
AfterConnectTry(c, outcome) ==
    IF outcome = "stdio_client raises" THEN c
    ELSE IF outcome = "ClientSession raises"
    THEN ClientOf(c.session, TRUE, TRUE, Append(c.exit_stack, "stdio_client"))
    ELSE ClientOf(TRUE, TRUE, TRUE, c.exit_stack \o Connected)

\* Mutant: the except branch of connect raises without closing.
connect_NoCleanup(c, outcome) ==
    IF outcome = "ok"
    THEN [client |-> AfterConnectTry(c, outcome), raised |-> FALSE, err |-> <<>>]
    ELSE [client |-> AfterConnectTry(c, outcome), raised |-> TRUE,
          err |-> ConnectFailed(outcome)]

\* MCPToolAgent.connect: on an exception the client is closed and
\* RuntimeError("Failed to connect to MCP server: ...") is raised.
connect(c, outcome) ==
    IF outcome = "ok"
    THEN [client |-> AfterConnectTry(c, outcome), raised |-> FALSE, err |-> <<>>]
    ELSE [client |-> close(AfterConnectTry(c, outcome)).client, raised |-> TRUE,
          err |-> ConnectFailed(outcome)]

TransportError == <<<<"exc", "transport error">>>>
ToolNotFound(tool_name) == <<<<"exc", "Tool '">>>> \o tool_name \o <<<<"exc", "' not found">>>>

\* MCPToolAgent.get_tool_names
get_tool_names(connected, remote) ==
    IF ~connected THEN Raise(NotConnected, <<>>, <<>>)
    ELSE IF remote = "raise" THEN Raise(TransportError, <<>>, <<ListTools("raised")>>)
    ELSE Return(<<Str("add")>>, <<>>, <<ListTools("answered")>>)

\* Mutant: a name the registry does not list yields an empty schema instead
\* of the ValueError.
get_tool_schema_UnknownIsEmpty(tool_name, cache, connected, remote) ==
    IF tool_name \in DOMAIN cache THEN Return(cache[tool_name], cache, <<>>)
    ELSE IF ~connected THEN Raise(NotConnected, cache, <<>>)
    ELSE IF remote = "raise" THEN Raise(TransportError, cache, <<ListTools("raised")>>)
    ELSE IF tool_name \in RegisteredTools /\ remote # "unlisted"
         THEN Return(SchemaOf(tool_name), Put(cache, tool_name, SchemaOf(tool_name)),
                     <<ListTools("answered")>>)
    ELSE Return([name |-> tool_name, description |-> "", parameters |-> ""], cache,
                <<ListTools("answered")>>)

\* Mutant: the schema found is returned without being stored in tools_cache.
get_tool_schema_NoStore(tool_name, cache, connected, remote) ==
    IF tool_name \in DOMAIN cache THEN Return(cache[tool_name], cache, <<>>)
    ELSE IF ~connected THEN Raise(NotConnected, cache, <<>>)
    ELSE IF remote = "raise" THEN Raise(TransportError, cache, <<ListTools("raised")>>)
    ELSE IF tool_name \in RegisteredTools /\ remote # "unlisted"
         THEN Return(SchemaOf(tool_name), cache, <<ListTools("answered")>>)
    ELSE Raise(ToolNotFound(tool_name), cache, <<ListTools("answered")>>)

\* Mutant: a name that was not found is remembered as not found.
get_tool_schema_CachesFailure(tool_name, cache, connected, remote) ==
    IF tool_name \in DOMAIN cache
    THEN IF cache[tool_name] = <<>> THEN Raise(ToolNotFound(tool_name), cache, <<>>)
         ELSE Return(cache[tool_name], cache, <<>>)
    ELSE IF ~connected THEN Raise(NotConnected, cache, <<>>)
    ELSE IF remote = "raise" THEN Raise(TransportError, cache, <<ListTools("raised")>>)
    ELSE IF tool_name \in RegisteredTools /\ remote # "unlisted"
         THEN Return(SchemaOf(tool_name), Put(cache, tool_name, SchemaOf(tool_name)),
                     <<ListTools("answered")>>)
    ELSE Raise(ToolNotFound(tool_name), Put(cache, tool_name, <<>>),
               <<ListTools("answered")>>)

\* MCPToolAgent.get_tool_schema. The server lists the tools registered with
\* it at the time of the call: a registered tool is listed unless the call
\* comes before its registration (remote = "unlisted").
get_tool_schema(tool_name, cache, connected, remote) ==
    IF tool_name \in DOMAIN cache THEN Return(cache[tool_name], cache, <<>>)
    ELSE IF ~connected THEN Raise(NotConnected, cache, <<>>)
    ELSE IF remote = "raise" THEN Raise(TransportError, cache, <<ListTools("raised")>>)
    ELSE IF tool_name \in RegisteredTools /\ remote # "unlisted"
         THEN Return(SchemaOf(tool_name), Put(cache, tool_name, SchemaOf(tool_name)),
                     <<ListTools("answered")>>)
    ELSE Raise(ToolNotFound(tool_name), cache, <<ListTools("answered")>>)

\* Mutant: a call_tool that raised is tried once more before the error is
\* passed on.
execute_tool_Retries(tool_name, arguments, cache, connected, remote) ==
    IF ~connected THEN Raise(NotConnected, cache, <<>>)
    ELSE IF remote = "raise"
         THEN Raise(TransportError, cache, <<CallTool(tool_name, arguments, "raised"),
                                             CallTool(tool_name, arguments, "raised")>>)
    ELSE IF remote = "ok"
         THEN Return([kind |-> "texts", of |-> tool_name, args |-> arguments], cache,
                     <<CallTool(tool_name, arguments, "answered")>>)
    ELSE Return([kind |-> "content", of |-> tool_name, args |-> arguments], cache,
                <<CallTool(tool_name, arguments, "answered_nontext")>>)

\* MCPToolAgent.execute_tool: the list of texts when every content item is
\* text, the content items themselves otherwise.
execute_tool(tool_name, arguments, cache, connected, remote) ==
    IF ~connected THEN Raise(NotConnected, cache, <<>>)
    ELSE IF remote = "raise"
         THEN Raise(TransportError, cache, <<CallTool(tool_name, arguments, "raised")>>)
    ELSE IF remote = "ok"
         THEN Return([kind |-> "texts", of |-> tool_name, args |-> arguments], cache,
                     <<CallTool(tool_name, arguments, "answered")>>)
    ELSE Return([kind |-> "content", of |-> tool_name, args |-> arguments], cache,
                <<CallTool(tool_name, arguments, "answered_nontext")>>)

\* json.dumps(schema, indent=2): the text of the JSON object.
json_dumps_schema(schema) ==
    <<LB, <<"name", "">>>> \o schema.name
        \o <<<<"description", schema.description>>,
             <<"parameters", schema.parameters>>, RB>>

\* json.dumps(result, indent=2): a list of strings is serialised; content
\* objects are not JSON serialisable and json.dumps raises TypeError.
json_dumps_result(result) ==
    IF result.kind = "texts"
    THEN [ok |-> TRUE,
          text |-> <<<<"ch", "[">>, <<"text", "result of">>>> \o result.of
                       \o result.args \o <<<<"ch", "]">>>>]
    ELSE [ok |-> FALSE, text |-> <<<<"exc", "Object is not JSON serializable">>>>]

(***************************************************************************)
(* ToolHandler.extract_and_process_tool_request                            *)
(***************************************************************************)
\* Mutant: the outcome of a tool request is injected as a user message.
SystemMessage_AsUser(content) == [role |-> "user", content |-> content]
SystemMessage(content) == [role |-> "system", content |-> content]
HumanMessage(content) == [role |-> "user", content |-> content]
AIMessage(content) == [role |-> "assistant", content |-> content]

\* ConsoleFormatter.format_error, called only when there is no response handler.
format_error(response_handler, message) ==
    IF response_handler THEN <<>> ELSE <<<<"console_error", "ERROR">>>> \o message

\* What one call of the handler did: its return value, the messages it
\* appended, the registry round-trips it made, the cache it left, its prints.
Outcome(should_continue, appended, made, cache, printed) ==
    [should_continue |-> should_continue, appended |-> appended, calls |-> made,
     cache |-> cache, printed |-> printed]

\* Mutant: the fall-through returns True.
NotAToolRequest_Continues(cache) == Outcome(TRUE, <<>>, <<>>, cache, <<>>)

\* Mutant: a text without a tool request is answered like a failed request,
\* with a system message and another query.
NotAToolRequest_FeedsBack(cache) ==
    Outcome(TRUE, <<SystemMessage(<<<<"sys", "Error: no tool request">>>>)>>, <<>>,
            cache, <<>>)

\* "If we got here, it's not a tool request, don't continue the tool loop".
NotAToolRequest(cache) == Outcome(FALSE, <<>>, <<>>, cache, <<>>)

\* Mutant: the outer "except Exception" returns True.
ExtractionError_Continues(e, cache, response_handler) ==
    Outcome(TRUE, <<>>, <<>>, cache,
            format_error(response_handler,
                         <<<<"sys", "Error in tool request extraction: ">>>> \o e))

\* The outer "except Exception": an exception raised outside the inner try
\* blocks (the KeyError of a missing field) ends in "return False".
ExtractionError(e, cache, response_handler) ==
    Outcome(FALSE, <<>>, <<>>, cache,
            format_error(response_handler,
                         <<<<"sys", "Error in tool request extraction: ">>>> \o e))

KeyError(k) == <<<<"exc", "KeyError">>, <<"exc", k>>>>

\* Mutant: the schema branch appends the schema and returns False.
SchemaSuccess_Stops(tool_name, r, response_handler) ==
    Outcome(FALSE,
            <<SystemMessage(<<<<"sys", "Use the following schema for tool '">>>>
                              \o tool_name \o <<<<"sys", "':\n">>>>
                              \o json_dumps_schema(r.value))>>,
            r.calls, r.cache, <<>>)

\* Mutant: the schema message carries the schema without its parameters.
SchemaSuccess_OmitsParameters(tool_name, r, response_handler) ==
    Outcome(TRUE,
            <<SystemMessage(<<<<"sys", "Use the following schema for tool '">>>>
                              \o tool_name \o <<<<"sys", "':\n">>>>
                              \o json_dumps_schema([r.value EXCEPT !.parameters = ""]))>>,
            r.calls, r.cache, <<>>)

\* The schema branch after a successful get_tool_schema.
SchemaSuccess(tool_name, r, response_handler) ==
    Outcome(TRUE,
            <<SystemMessage(<<<<"sys", "Use the following schema for tool '">>>>
                              \o tool_name \o <<<<"sys", "':\n">>>>
                              \o json_dumps_schema(r.value))>>,
            r.calls, r.cache, <<>>)

\* Mutant: the schema branch lets the exception of get_tool_schema leave the
\* handler through the outer except, which returns False and appends nothing.
SchemaFailure_Aborts(r, response_handler) ==
    Outcome(FALSE, <<>>, r.calls, r.cache,
            format_error(response_handler,
                         <<<<"sys", "Error in tool request extraction: ">>>> \o r.err))

\* Mutant: the except branch appends its message twice.
SchemaFailure_AppendsTwice(r, response_handler) ==
    LET error_message == <<<<"sys", "Error getting schema: ">>>> \o r.err
    IN  Outcome(TRUE, <<SystemMessage(error_message), SystemMessage(error_message)>>,
                r.calls, r.cache, format_error(response_handler, error_message))

\* The schema branch's "except Exception".
SchemaFailure(r, response_handler) ==
    LET error_message == <<<<"sys", "Error getting schema: ">>>> \o r.err
    IN  Outcome(TRUE, <<SystemMessage(error_message)>>, r.calls, r.cache,
                format_error(response_handler, error_message))

\* Mutant: the except branch returns True without appending its message.
ExecuteFailure_AppendsNothing(e, r, response_handler) ==
    Outcome(TRUE, <<>>, r.calls, r.cache,
            format_error(response_handler, <<<<"sys", "Error executing tool: ">>>> \o e))

\* Mutant: the except branch reports the error under the schema branch's text.
ExecuteFailure_SchemaText(e, r, response_handler) ==
    LET error_message == <<<<"sys", "Error getting schema: ">>>> \o e
    IN  Outcome(TRUE, <<SystemMessage(error_message)>>, r.calls, r.cache,
                format_error(response_handler, error_message))

\* The execute branch's "except Exception", for an exception with text e.
ExecuteFailure(e, r, response_handler) ==
    LET error_message == <<<<"sys", "Error executing tool: ">>>> \o e
    IN  Outcome(TRUE, <<SystemMessage(error_message)>>, r.calls, r.cache,
                format_error(response_handler, error_message))

\* The execute branch after execute_tool returned: json.dumps of the result
\* is inside the try block, so its TypeError lands in the except branch.
ExecuteSuccess(tool_name, r, response_handler) ==
    LET dumped == json_dumps_result(r.value)
    IN  IF dumped.ok
        THEN Outcome(TRUE,
                     <<SystemMessage(<<<<"sys", "This is the result of executing '">>>>
                                       \o tool_name \o <<<<"sys", "':\n">>>>
                                       \o dumped.text)>>,
                     r.calls, r.cache, <<>>)
        ELSE ExecuteFailure(dumped.text, r, response_handler)

SchemaRequest(tool_request, cache, connected, remote, response_handler) ==
    IF "tool_name" \notin DOMAIN tool_request
    THEN ExtractionError(KeyError("tool_name"), cache, response_handler)
    ELSE LET tool_name == tool_request["tool_name"]
             r == get_tool_schema(tool_name, cache, connected, remote)
         IN  IF r.raised THEN SchemaFailure(r, response_handler)
             ELSE SchemaSuccess(tool_name, r, response_handler)

\* Mutant: the execute branch calls execute_tool without the arguments.
ExecuteRequest_DropsArguments(tool_request, cache, connected, remote, response_handler) ==
    IF "tool_name" \notin DOMAIN tool_request
    THEN ExtractionError(KeyError("tool_name"), cache, response_handler)
    ELSE IF "arguments" \notin DOMAIN tool_request
    THEN ExtractionError(KeyError("arguments"), cache, response_handler)
    ELSE LET tool_name == tool_request["tool_name"]
             r == execute_tool(tool_name, <<LB, RB>>, cache, connected, remote)
         IN  IF r.raised THEN ExecuteFailure(r.err, r, response_handler)
             ELSE ExecuteSuccess(tool_name, r, response_handler)

\* Mutant: the execute branch refuses a tool whose schema was not fetched.
ExecuteRequest_RequiresSchema(tool_request, cache, connected, remote, response_handler) ==
    IF "tool_name" \notin DOMAIN tool_request
    THEN ExtractionError(KeyError("tool_name"), cache, response_handler)
    ELSE IF "arguments" \notin DOMAIN tool_request
    THEN ExtractionError(KeyError("arguments"), cache, response_handler)
    ELSE LET tool_name == tool_request["tool_name"]
             arguments == tool_request["arguments"]
             r == execute_tool(tool_name, arguments, cache, connected, remote)
         IN  IF tool_name \notin DOMAIN cache
             THEN ExecuteFailure(<<<<"exc", "schema not fetched">>>>,
                                 Raise(<<>>, cache, <<>>), response_handler)
             ELSE IF r.raised THEN ExecuteFailure(r.err, r, response_handler)
             ELSE ExecuteSuccess(tool_name, r, response_handler)

ExecuteRequest(tool_request, cache, connected, remote, response_handler) ==
    IF "tool_name" \notin DOMAIN tool_request
    THEN ExtractionError(KeyError("tool_name"), cache, response_handler)
    ELSE IF "arguments" \notin DOMAIN tool_request
    THEN ExtractionError(KeyError("arguments"), cache, response_handler)
    ELSE LET tool_name == tool_request["tool_name"]
             arguments == tool_request["arguments"]
             r == execute_tool(tool_name, arguments, cache, connected, remote)
         IN  IF r.raised THEN ExecuteFailure(r.err, r, response_handler)
             ELSE ExecuteSuccess(tool_name, r, response_handler)

\* Mutant: no "except json.JSONDecodeError" around json.loads, so that the
\* error of a text that is no JSON reaches the outer "except Exception".
extract_and_process_tool_request_NoDecodeGuard(text, cache, connected, remote, response_handler) ==
    LET json_start == find(text, LB)
        json_end == rfind(text, RB) + 1
    IN  IF json_start >= 0 /\ json_end > json_start
        THEN LET json_str == Slice(text, json_start, json_end)
                 parsed == json_loads(json_str)
                 tool_request == parsed.obj
             IN  IF ~parsed.ok
                 THEN ExtractionError(<<<<"exc", "JSONDecodeError">>>>, cache,
                                      response_handler)
                 ELSE IF "tool_request" \in DOMAIN tool_request
                 THEN IF tool_request["tool_request"] = Str("schema")
                      THEN SchemaRequest(tool_request, cache, connected, remote,
                                         response_handler)
                      ELSE IF tool_request["tool_request"] = Str("execute")
                      THEN ExecuteRequest(tool_request, cache, connected, remote,
                                          response_handler)
                      ELSE NotAToolRequest(cache)
                 ELSE NotAToolRequest(cache)
        ELSE NotAToolRequest(cache)

extract_and_process_tool_request(text, cache, connected, remote, response_handler) ==
    LET json_start == find(text, LB)
        json_end == rfind(text, RB) + 1
    IN  IF json_start >= 0 /\ json_end > json_start
        THEN LET json_str == Slice(text, json_start, json_end)
                 parsed == json_loads(json_str)
                 tool_request == parsed.obj
             IN  IF ~parsed.ok THEN NotAToolRequest(cache)
                 ELSE IF "tool_request" \in DOMAIN tool_request
                 THEN IF tool_request["tool_request"] = Str("schema")
                      THEN SchemaRequest(tool_request, cache, connected, remote,
                                         response_handler)
                      ELSE IF tool_request["tool_request"] = Str("execute")
                      THEN ExecuteRequest(tool_request, cache, connected, remote,
                                          response_handler)
                      ELSE NotAToolRequest(cache)
                 ELSE NotAToolRequest(cache)
        ELSE NotAToolRequest(cache)

(***************************************************************************)
(* ChatSession                                                             *)
(***************************************************************************)
\* The entrypoints: process_message without and with a response handler,
\* process_message_api with stream=False and stream=True, astream_message
\* without and with an output handler.
Callers == {"process_message", "process_message_handler",
            "process_message_api", "process_message_api_stream",
            "astream_message", "astream_message_handler"}

\* The entrypoint passes a handler (its own or the caller's) down the turn.
HasHandler(c) == c \in {"process_message_handler", "process_message_api",
                        "process_message_api_stream", "astream_message_handler"}
\* The entrypoint is an async generator the consumer iterates.
IsGenerator(c) == c \in {"process_message_api_stream", "astream_message",
                         "astream_message_handler"}
\* The entrypoint returns handler.get_content() when the loop is left.
IsBuffered(c) == c \in {"process_message_handler", "process_message_api"}

\* The tool names the session was constructed with, and its system prompt.
tool_names == <<Str("add")>>
create_system_prompt(names) ==
    <<<<"prompt", "You are a friendly assistant with access to the following tools: ">>>>
        \o [i \in 1..Len(names) |-> <<"tool", names[i][1][2]>>]

UserInputs == {<<<<"user", "input">>>>}

\* The second session as constructed, and as long as it is not used.
NoBuffered ==
    [pc |-> "idle", messages |-> <<SystemMessage(create_system_prompt(tool_names))>>,
     tools_cache |-> EmptyObj, calls |-> <<>>, handler |-> <<>>, ret |-> <<>>,
     script |-> <<>>, cycles |-> 0, seen |-> 0]

\* The HTTP requests the server handles at a time, and a request not yet
\* received.
RequestIds == {"a", "b"}
NoRequest ==
    [pc |-> "none", messages |-> <<>>, response_content |-> <<>>, calls |-> <<>>,
     ended |-> "none"]

\* What the scripted LLM streams in one cycle: a sequence of chunks, each a
\* text; an empty chunk is one without content.
PlainText == <<<<W>>, <<>>, <<W>>>>
BracesInProse == <<<<W, LB, W>>, <<RB>>>>
ObjectWithoutToolRequest == <<<<LB, KV, RB>>>>
OtherToolRequest == <<<<LB, TR("other"), TN("add"), RB>>>>
SchemaAdd == <<<<W, LB, TR("schema")>>, <<TN("add"), RB>>>>
SchemaUnknown == <<<<LB, TR("schema"), TN("nope"), RB>>>>
SchemaNoName == <<<<LB, TR("schema"), RB>>>>
ExecuteAdd == <<<<LB, TR("execute"), TN("add")>>, <<ARGS, LB, KV, RB, RB, W>>>>
ExecuteNoArguments == <<<<LB, TR("execute"), TN("add"), RB>>>>

Scripts == {PlainText, BracesInProse, ObjectWithoutToolRequest,
            OtherToolRequest, SchemaAdd, SchemaUnknown, SchemaNoName,
            ExecuteAdd, ExecuteNoArguments}

\* str(e) of the exception the LLM stream raises.
StreamError == <<<<"exc", "stream failed">>>>

Init ==
    /\ messages = <<SystemMessage(create_system_prompt(tool_names))>>
    /\ session = TRUE
    /\ tools_cache = EmptyObj
    /\ caller \in Callers
    /\ pc = "idle"
    /\ script = <<>>
    /\ response_content = <<>>
    /\ handler = <<>>
    /\ yielded = <<>>
    /\ console = <<>>
    /\ ret = <<>>
    /\ ended = "none"
    /\ reqLen = <<>>
    /\ turnLen = 1
    /\ calls = <<>>
    /\ ops = <<>>
    /\ requests = [r \in RequestIds |-> NoRequest]
    /\ read_stream = session
    /\ write_stream = session
    /\ exit_stack = IF session THEN Connected ELSE <<>>
    /\ sse_events = <<>>
    /\ buffered = NoBuffered

\* The call of the entrypoint, up to its loop. process_message and
\* process_message_api append the user message in the call; astream_message
\* is a generator function, whose body starts at the first iteration.
StartTurn ==
    /\ pc = "idle"
    /\ Len(messages) + 3 <= MaxMessages
    /\ \E user_input \in UserInputs :
          messages' = IF caller \in {"astream_message", "astream_message_handler"}
                      THEN messages
                      ELSE Append(messages, HumanMessage(user_input))
    /\ pc' = IF IsGenerator(caller) THEN "created" ELSE "request"
    /\ turnLen' = Len(messages)
    /\ handler' = <<>>
    /\ yielded' = <<>>
    /\ console' = <<>>
    /\ ret' = <<>>
    /\ calls' = <<>>
    /\ reqLen' = <<>>
    /\ ended' = "running"
    /\ response_content' = <<>>
    /\ script' = <<>>
    /\ UNCHANGED <<session, tools_cache, caller>>
    /\ UNCHANGED others

\* The consumer's first iteration of the generator.
FirstNext ==
    /\ pc = "created"
    /\ \E user_input \in UserInputs :
          messages' = IF caller \in {"astream_message", "astream_message_handler"}
                      THEN Append(messages, HumanMessage(user_input))
                      ELSE messages
    /\ pc' = "request"
    /\ UNCHANGED <<session, tools_cache, caller, script, response_content, handler,
                   yielded, console, ret, ended, reqLen,
                   turnLen, calls>>
    /\ UNCHANGED others

\* Top of the while loop: response_content = "" and self.llm.astream(self.messages).
RequestStream ==
    /\ pc = "request"
    /\ Len(messages) + 2 <= MaxMessages
    /\ \E s \in Scripts : script' = s
    /\ response_content' = <<>>
    /\ reqLen' = Append(reqLen, Len(messages))
    /\ pc' = "streaming"
    /\ UNCHANGED <<messages, session, tools_cache, caller, handler, yielded, console,
                   ret, ended, turnLen, calls>>
    /\ UNCHANGED others

\* Mutant: the chunk is forwarded but accumulated in front of the text.
NextChunk_AccumulatesInFront ==
    /\ pc = "streaming"
    /\ script # <<>>
    /\ LET chunk == Head(script)
       IN  /\ script' = Tail(script)
           /\ IF chunk # <<>>
              THEN /\ response_content' = chunk \o response_content
                   /\ handler' = IF HasHandler(caller) THEN handler \o chunk ELSE handler
                   /\ console' = IF caller = "process_message"
                                 THEN console \o chunk ELSE console
                   /\ yielded' = IF IsGenerator(caller)
                                 THEN Append(yielded, chunk) ELSE yielded
                   /\ pc' = IF IsGenerator(caller) THEN "yielded" ELSE "streaming"
              ELSE UNCHANGED <<response_content, handler, console, yielded, pc>>
    /\ UNCHANGED <<messages, session, tools_cache, caller, ret, ended, reqLen, turnLen, calls>>
    /\ UNCHANGED others

\* One iteration of "async for chunk in ...": a chunk without content is
\* skipped, another is handed to the handler or the console, accumulated and,
\* in a generator, yielded.
NextChunk ==
    /\ pc = "streaming"
    /\ script # <<>>
    /\ LET chunk == Head(script)
       IN  /\ script' = Tail(script)
           /\ IF chunk # <<>>
              THEN /\ response_content' = response_content \o chunk
                   /\ handler' = IF HasHandler(caller) THEN handler \o chunk ELSE handler
                   /\ console' = IF caller = "process_message"
                                 THEN console \o chunk ELSE console
                   /\ yielded' = IF IsGenerator(caller)
                                 THEN Append(yielded, chunk) ELSE yielded
                   /\ pc' = IF IsGenerator(caller) THEN "yielded" ELSE "streaming"
              ELSE UNCHANGED <<response_content, handler, console, yielded, pc>>
    /\ UNCHANGED <<messages, session, tools_cache, caller, ret, ended, reqLen, turnLen, calls>>
    /\ UNCHANGED others

\* The consumer asks for the next item after a chunk.
ResumeAfterChunk ==
    /\ pc = "yielded"
    /\ pc' = "streaming"
    /\ UNCHANGED <<messages, session, tools_cache, caller, script, response_content,
                   handler, yielded, console, ret, ended, reqLen, turnLen, calls>>
    /\ UNCHANGED others

\* The text of the error indicator each entrypoint builds in its
\* "except Exception as e" around the stream cycle.
ErrorIndicator(c, e) ==
    IF c \in {"process_message", "process_message_handler"}
    THEN <<<<"error", "Error during streaming: ">>>> \o e
    ELSE IF c \in {"process_message_api", "process_message_api_stream"}
    THEN <<<<"error", "Error: ">>>> \o e
    ELSE <<<<"error", "Error in streaming: ">>>> \o e

\* The handler's content after the except branch: process_message and
\* astream_message add the indicator to their handler; APIResponseHandler's
\* format_error only returns the text and leaves the content alone.
HandlerAfterError(c, h, e) ==
    IF c \in {"process_message_handler", "astream_message_handler"}
    THEN h \o ErrorIndicator(c, e)
    ELSE h

\* Mutant: the except branch appends the partial text as an assistant message.
HistoryAfterStreamError_KeepsPartial(msgs, partial) == Append(msgs, AIMessage(partial))

\* Mutant: the except branch rolls the history back by its last message.
HistoryAfterStreamError_RollsBack(msgs, partial) == SubSeq(msgs, 1, Len(msgs) - 1)

\* The history after the except branch: nothing is appended, the partial
\* response_content is a local of the abandoned iteration.
HistoryAfterStreamError(msgs, partial) == msgs

\* Mutant: closing the generator appends the partial text (a finally block
\* that flushes response_content).
HistoryAfterClose_KeepsPartial(msgs, partial) == Append(msgs, AIMessage(partial))

\* The history after the consumer closed the generator: GeneratorExit is no
\* Exception, so it leaves the generator through the try block.
HistoryAfterClose(msgs, partial) == msgs

\* What the call returns when the loop is left: handler.get_content() when
\* there is a handler, None otherwise.
ReturnValue(c, h) == IF IsBuffered(c) THEN <<h>> ELSE <<>>

\* Mutant: no except branch around the stream cycle of a call that is not a
\* generator: the exception leaves the call and the client's loop with it,
\* and the session takes no further turn.
StreamFail_Fatal ==
    /\ pc = "streaming"
    /\ LET e == StreamError
       IN  /\ messages' = HistoryAfterStreamError(messages, response_content)
           /\ handler' = HandlerAfterError(caller, handler, e)
           /\ console' = IF caller = "process_message"
                         THEN console \o <<<<"console_error", "ERROR">>>>
                                      \o ErrorIndicator(caller, e)
                         ELSE console
           /\ yielded' = IF IsGenerator(caller)
                         THEN Append(yielded, ErrorIndicator(caller, e)) ELSE yielded
           /\ pc' = IF IsGenerator(caller) THEN "error_yielded" ELSE "failed"
           /\ ret' = ret
           /\ ended' = IF IsGenerator(caller) THEN ended ELSE "error"
    /\ script' = <<>>
    /\ UNCHANGED <<session, tools_cache, caller, response_content, reqLen, turnLen, calls>>
    /\ UNCHANGED others

\* The LLM stream raises, before its first chunk, between two chunks or after
\* the last: the except branch of the entrypoint runs and leaves the loop.
StreamFail ==
    /\ pc = "streaming"
    /\ LET e == StreamError
       IN  /\ messages' = HistoryAfterStreamError(messages, response_content)
           /\ handler' = HandlerAfterError(caller, handler, e)
           /\ console' = IF caller = "process_message"
                         THEN console \o <<<<"console_error", "ERROR">>>>
                                      \o ErrorIndicator(caller, e)
                         ELSE console
           /\ yielded' = IF IsGenerator(caller)
                         THEN Append(yielded, ErrorIndicator(caller, e)) ELSE yielded
           /\ pc' = IF IsGenerator(caller) THEN "error_yielded" ELSE "idle"
           /\ ret' = IF IsGenerator(caller) THEN ret
                     ELSE ReturnValue(caller, HandlerAfterError(caller, handler, e))
           /\ ended' = IF IsGenerator(caller) THEN ended ELSE "error"
    /\ script' = <<>>
    /\ UNCHANGED <<session, tools_cache, caller, response_content, reqLen, turnLen, calls>>
    /\ UNCHANGED others

\* The consumer asks for the next item after the error chunk:
\* tool_processing is False and the generator finishes.
ResumeAfterError ==
    /\ pc = "error_yielded"
    /\ pc' = "idle"
    /\ ended' = "error"
    /\ UNCHANGED <<messages, session, tools_cache, caller, script, response_content,
                   handler, yielded, console, ret, reqLen,
                   turnLen, calls>>
    /\ UNCHANGED others

\* Mutant: a ceiling on the round-trips of a turn: the loop is left after the
\* second cycle whatever the handler returns.
StreamEnd_Capped ==
    /\ pc = "streaming"
    /\ script = <<>>
    /\ \E remote \in Remote :
          LET o == extract_and_process_tool_request(response_content, tools_cache,
                                                    session, remote, HasHandler(caller))
              go_on == o.should_continue /\ Len(reqLen) < 2
          IN  /\ messages' = Append(messages, AIMessage(response_content)) \o o.appended
              /\ tools_cache' = o.cache
              /\ calls' = calls \o o.calls
              /\ console' = console \o o.printed
              /\ pc' = IF go_on THEN "request" ELSE "idle"
              /\ ret' = IF go_on THEN ret ELSE ReturnValue(caller, handler)
              /\ ended' = IF go_on THEN ended ELSE "final"
    /\ UNCHANGED <<session, caller, script, response_content, handler, yielded,
                   reqLen, turnLen>>
    /\ UNCHANGED others

\* Mutant: the loop is never left: tool_processing stays True whatever the
\* handler returns.
StreamEnd_NeverLeavesLoop ==
    /\ pc = "streaming"
    /\ script = <<>>
    /\ \E remote \in Remote :
          LET o == extract_and_process_tool_request(response_content, tools_cache,
                                                    session, remote, HasHandler(caller))
          IN  /\ messages' = Append(messages, AIMessage(response_content)) \o o.appended
              /\ tools_cache' = o.cache
              /\ calls' = calls \o o.calls
              /\ console' = console \o o.printed
              /\ pc' = "request"
              /\ ret' = ret
              /\ ended' = ended
    /\ UNCHANGED <<session, caller, script, response_content, handler, yielded,
                   reqLen, turnLen>>
    /\ UNCHANGED others

\* The stream ends: the accumulated text is appended as the assistant
\* message, the tool handler runs on it, and the loop goes on or is left.
StreamEnd ==
    /\ pc = "streaming"
    /\ script = <<>>
    /\ \E remote \in Remote :
          LET o == extract_and_process_tool_request(response_content, tools_cache,
                                                    session, remote, HasHandler(caller))
          IN  /\ messages' = Append(messages, AIMessage(response_content)) \o o.appended
              /\ tools_cache' = o.cache
              /\ calls' = calls \o o.calls
              /\ console' = console \o o.printed
              /\ pc' = IF o.should_continue THEN "request" ELSE "idle"
              /\ ret' = IF o.should_continue THEN ret ELSE ReturnValue(caller, handler)
              /\ ended' = IF o.should_continue THEN ended ELSE "final"
    /\ UNCHANGED <<session, caller, script, response_content, handler, yielded,
                   reqLen, turnLen>>
    /\ UNCHANGED others

\* The consumer abandons the generator: it closes or drops it while it is
\* suspended at a yield or before its first step (GeneratorExit is raised at
\* the yield), or it is cancelled while the generator awaits the next chunk
\* (CancelledError is raised in the await). Neither is an Exception.
Abandon ==
    /\ IsGenerator(caller)
    /\ pc \in {"created", "yielded", "streaming", "error_yielded"}
    /\ messages' = HistoryAfterClose(messages, response_content)
    /\ pc' = "idle"
    /\ ended' = IF pc = "error_yielded" THEN "error" ELSE "abandoned"
    /\ script' = <<>>
    /\ UNCHANGED <<session, tools_cache, caller, response_content, handler, yielded,
                   console, ret, reqLen, turnLen, calls>>
    /\ UNCHANGED others

\* await client.close(): the server's shutdown, the console client's
\* finally, or a direct caller, on a client in any state; tools_cache is kept.
Close ==
    /\ LET closed == close(Client).client
       IN  /\ session' = closed.session
           /\ read_stream' = closed.read_stream
           /\ write_stream' = closed.write_stream
           /\ exit_stack' = closed.exit_stack
    /\ UNCHANGED <<messages, tools_cache, caller, pc, script, response_content,
                   handler, yielded, console, ret, ended, reqLen, turnLen, calls>>
    /\ UNCHANGED <<ops, requests, sse_events, buffered>>

Next ==
    \/ StartTurn
    \/ FirstNext
    \/ RequestStream
    \/ NextChunk
    \/ ResumeAfterChunk
    \/ StreamFail
    \/ ResumeAfterError
    \/ StreamEnd
    \/ Abandon
    \/ Close

Spec == Init /\ [][Next]_vars

(***************************************************************************)
(* The session under a model that answers every query with a tool request, *)
(* a stream that never raises and a consumer that never abandons           *)
(***************************************************************************)
ToolScripts == {SchemaAdd, SchemaUnknown, ExecuteAdd}

\* Top of the while loop, the LLM about to stream a tool request.
RequestToolStream ==
    /\ pc = "request"
    /\ Len(messages) + 2 <= MaxMessages
    /\ \E s \in ToolScripts : script' = s
    /\ response_content' = <<>>
    /\ reqLen' = Append(reqLen, Len(messages))
    /\ pc' = "streaming"
    /\ UNCHANGED <<messages, session, tools_cache, caller, handler, yielded, console,
                   ret, ended, turnLen, calls>>
    /\ UNCHANGED others

LoopNext ==
    \/ StartTurn
    \/ FirstNext
    \/ RequestToolStream
    \/ NextChunk
    \/ ResumeAfterChunk
    \/ StreamEnd
    \/ Close

SpecLoop == Init /\ [][LoopNext]_vars

(***************************************************************************)
(* The end of one stream cycle over every assistant text: the inputs of    *)
(* extract_and_process_tool_request                                        *)
(***************************************************************************)
\* Prose around an embedded object: words and stray braces.
Prose == UNION {[1..n -> {W, LB, RB}] : n \in 0..MaxProse}

\* Well-formed execute-requests, with the tool name and the text of the
\* arguments they carry.
ExecuteRequests ==
    {[text |-> <<LB, TR("execute"), TN("add"), ARGS, LB, KV, RB, RB>>,
      tool_name |-> Str("add"), arguments |-> <<LB, KV, RB>>],
     [text |-> <<LB, TN("nope"), ARGS, LB, RB, TR("execute"), RB>>,
      tool_name |-> Str("nope"), arguments |-> <<LB, RB>>]}

\* What the prose surrounds: nothing, an execute-request, a schema-request,
\* a JSON object without a tool_request key.
Cores == {<<>>, <<LB, TR("schema"), TN("add"), RB>>, <<LB, KV, RB>>}
             \cup {e.text : e \in ExecuteRequests}

AssistantTexts == {pre \o core \o post : pre \in Prose, core \in Cores, post \in Prose}

\* The first cycle of a session's first turn, its stream requested: the LLM
\* is about to stream the text as one chunk.
ExtractInit ==
    /\ messages = <<SystemMessage(create_system_prompt(tool_names)),
                    HumanMessage(CHOOSE u \in UserInputs : TRUE)>>
    /\ session \in BOOLEAN
    /\ tools_cache = EmptyObj
    /\ caller \in Callers
    /\ pc = "streaming"
    /\ script \in {<<text>> : text \in AssistantTexts}
    /\ response_content = <<>>
    /\ handler = <<>>
    /\ yielded = <<>>
    /\ console = <<>>
    /\ ret = <<>>
    /\ ended = "running"
    /\ reqLen = <<2>>
    /\ turnLen = 1
    /\ calls = <<>>
    /\ ops = <<>>
    /\ requests = [r \in RequestIds |-> NoRequest]
    /\ read_stream = session
    /\ write_stream = session
    /\ exit_stack = IF session THEN Connected ELSE <<>>
    /\ sse_events = <<>>
    /\ buffered = NoBuffered

ExtractNext ==
    \/ NextChunk
    \/ ResumeAfterChunk
    \/ StreamEnd

SpecExtract == ExtractInit /\ [][ExtractNext]_vars

(***************************************************************************)
(* The two tool handlers of the repository on one assistant text: the      *)
(* handler of the client package (src/client/tool_handler.py) and the      *)
(* handler of the first console program (src/tool_handler.py), which       *)
(* returns the pair (is_tool_request, should_continue), prints where the   *)
(* other formats, and words its schema and result messages differently.    *)
(***************************************************************************)
\* print(f"\nSystem: {message}")
PrintSystem(message) == <<<<"console", "\nSystem: ">>>> \o message

\* What one call of the first handler did; its two return values are equal
\* at each of its return statements.
PairOutcome(flag, appended, made, cache, printed) ==
    [is_tool_request |-> flag, should_continue |-> flag, appended |-> appended,
     calls |-> made, cache |-> cache, printed |-> printed]

\* The except branches of the first handler: the message is appended, then
\* printed.
PairFailure(prefix, e, r) ==
    LET error_message == <<<<"sys", prefix>>>> \o e
    IN  PairOutcome(TRUE, <<SystemMessage(error_message)>>, r.calls, r.cache,
                    PrintSystem(error_message))

\* The outer "except Exception" of the first handler.
PairExtractionError(e, cache) ==
    PairOutcome(FALSE, <<>>, <<>>, cache,
                <<<<"console", "Error in tool request extraction: ">>>> \o e)

\* src/tool_handler.py, ToolHandler.extract_and_process_tool_request
extract_and_process_tool_request_pair(text, cache, connected, remote) ==
    LET json_start == find(text, LB)
        json_end == rfind(text, RB) + 1
        parsed == json_loads(Slice(text, json_start, json_end))
        tool_request == parsed.obj
    IN  IF ~(json_start >= 0 /\ json_end > json_start) THEN PairOutcome(FALSE, <<>>, <<>>, cache, <<>>)
        ELSE IF ~parsed.ok THEN PairOutcome(FALSE, <<>>, <<>>, cache, <<>>)
        ELSE IF "tool_request" \notin DOMAIN tool_request
        THEN PairOutcome(FALSE, <<>>, <<>>, cache, <<>>)
        ELSE IF tool_request["tool_request"] = Str("schema")
        THEN IF "tool_name" \notin DOMAIN tool_request
             THEN PairExtractionError(KeyError("tool_name"), cache)
             ELSE LET tool_name == tool_request["tool_name"]
                      r == get_tool_schema(tool_name, cache, connected, remote)
                      system_message == <<<<"sys", "Tool schema for ">>>> \o tool_name
                                            \o <<<<"sys", ": ">>>> \o json_dumps_schema(r.value)
                  IN  IF r.raised THEN PairFailure("Error getting schema: ", r.err, r)
                      ELSE PairOutcome(TRUE, <<SystemMessage(system_message)>>, r.calls,
                                       r.cache, PrintSystem(system_message))
        ELSE IF tool_request["tool_request"] = Str("execute")
        THEN IF "tool_name" \notin DOMAIN tool_request
             THEN PairExtractionError(KeyError("tool_name"), cache)
             ELSE IF "arguments" \notin DOMAIN tool_request
             THEN PairExtractionError(KeyError("arguments"), cache)
             ELSE LET tool_name == tool_request["tool_name"]
                      arguments == tool_request["arguments"]
                      r == execute_tool(tool_name, arguments, cache, connected, remote)
                      dumped == json_dumps_result(r.value)
                      system_message == <<<<"sys", "Tool execution result: ">>>> \o dumped.text
                  IN  IF r.raised THEN PairFailure("Error executing tool: ", r.err, r)
                      ELSE IF ~dumped.ok THEN PairFailure("Error executing tool: ", dumped.text, r)
                      ELSE PairOutcome(TRUE, <<SystemMessage(system_message)>>, r.calls,
                                       r.cache, PrintSystem(system_message))
        ELSE PairOutcome(FALSE, <<>>, <<>>, cache, <<>>)

\* The first cycle of a session's first turn, its stream requested, in the
\* console program or with a response handler: the LLM is about to stream
\* one of the scripted texts as one chunk.
HandlersInit ==
    /\ messages = <<SystemMessage(create_system_prompt(tool_names)),
                    HumanMessage(CHOOSE u \in UserInputs : TRUE)>>
    /\ session \in BOOLEAN
    /\ tools_cache = EmptyObj
    /\ caller \in {"process_message", "process_message_handler"}
    /\ pc = "streaming"
    /\ script \in {<<Concat(s)>> : s \in Scripts}
    /\ response_content = <<>>
    /\ handler = <<>>
    /\ yielded = <<>>
    /\ console = <<>>
    /\ ret = <<>>
    /\ ended = "running"
    /\ reqLen = <<2>>
    /\ turnLen = 1
    /\ calls = <<>>
    /\ ops = <<>>
    /\ requests = [r \in RequestIds |-> NoRequest]
    /\ read_stream = session
    /\ write_stream = session
    /\ exit_stack = IF session THEN Connected ELSE <<>>
    /\ sse_events = <<>>
    /\ buffered = NoBuffered

\* The stream ends in the first console program (src/chat_session.py): the
\* assistant message is appended, the first handler runs on the text, and
\* the loop goes on or is left.
PairStreamEnd ==
    /\ caller = "process_message"
    /\ pc = "streaming"
    /\ script = <<>>
    /\ \E remote \in Remote :
          LET o == extract_and_process_tool_request_pair(response_content, tools_cache,
                                                         session, remote)
          IN  /\ messages' = Append(messages, AIMessage(response_content)) \o o.appended
              /\ tools_cache' = o.cache
              /\ calls' = calls \o o.calls
              /\ console' = console \o o.printed
              /\ pc' = IF o.should_continue THEN "request" ELSE "idle"
              /\ ended' = IF o.should_continue THEN ended ELSE "final"
    /\ UNCHANGED <<session, caller, script, response_content, handler, yielded, ret,
                   reqLen, turnLen>>
    /\ UNCHANGED others

HandlersNext ==
    \/ NextChunk
    \/ StreamEnd
    \/ PairStreamEnd

SpecHandlers == HandlersInit /\ [][HandlersNext]_vars

(***************************************************************************)
(* The registry client called directly: sequential calls of                *)
(* MCPToolAgent.get_tool_schema and MCPToolAgent.close on one client       *)
(***************************************************************************)
\* The names a caller asks for: a tool the registry lists and one it does not.
ToolNames == {Str("add"), Str("nope")}

\* A connected client with an empty cache; no chat turn is in progress.
AgentInit ==
    /\ messages = <<SystemMessage(create_system_prompt(tool_names))>>
    /\ session = TRUE
    /\ tools_cache = EmptyObj
    /\ caller = "process_message"
    /\ pc = "idle"
    /\ script = <<>>
    /\ response_content = <<>>
    /\ handler = <<>>
    /\ yielded = <<>>
    /\ console = <<>>
    /\ ret = <<>>
    /\ ended = "none"
    /\ reqLen = <<>>
    /\ turnLen = 1
    /\ calls = <<>>
    /\ ops = <<>>
    /\ requests = [r \in RequestIds |-> NoRequest]
    /\ read_stream = session
    /\ write_stream = session
    /\ exit_stack = IF session THEN Connected ELSE <<>>
    /\ sse_events = <<>>
    /\ buffered = NoBuffered

\* await client.get_tool_schema(tool_name), run to its return or its raise.
GetToolSchema ==
    /\ Len(ops) < MaxOps
    /\ \E tool_name \in ToolNames, remote \in Remote \cup {"unlisted"} :
          LET r == get_tool_schema(tool_name, tools_cache, session, remote)
          IN  /\ tools_cache' = r.cache
              /\ ops' = Append(ops, [op |-> "get_tool_schema", name |-> tool_name,
                                     raised |-> r.raised, value |-> r.value,
                                     err |-> r.err, made |-> r.calls])
    /\ UNCHANGED <<session, chat, requests, transport, sse_events, buffered>>

AgentNext ==
    \/ GetToolSchema
    \/ Close

SpecAgent == AgentInit /\ [][AgentNext]_vars

(***************************************************************************)
(* api_server: the HTTP requests in flight, each with a ChatSession of its *)
(* own over the one global registry client. Requests interleave at the     *)
(* end of a stream and at the end of a tool dispatch.                      *)
(***************************************************************************)
\* What the scripted LLM streams to a request: text, or a schema-request.
ServerScripts == {PlainText, SchemaAdd}

\* The server after lifespan's startup: get_mcp_client has created and
\* connected the global client; no request has been received.
ServerInit == AgentInit

\* Mutant: the server keeps the session of a request in active_sessions and
\* a request that names it is served by that session, whatever it is doing.
ChatCompletions_ReusesSession(r) ==
    /\ \E user_input \in UserInputs :
          requests' = [requests EXCEPT ![r] =
              IF ~session THEN [NoRequest EXCEPT !.pc = "done", !.ended = "error"]
              ELSE IF requests[r].pc = "none"
              THEN [pc |-> "request",
                    messages |-> <<SystemMessage(create_system_prompt(tool_names)),
                                   HumanMessage(user_input)>>,
                    response_content |-> <<>>, calls |-> <<>>, ended |-> "running"]
              ELSE [requests[r] EXCEPT
                        !.messages = IF Len(@) < MaxMessages
                                     THEN Append(@, HumanMessage(user_input)) ELSE @,
                        !.pc = "request", !.ended = "running"]]
    /\ UNCHANGED <<session, tools_cache, chat, ops, transport, sse_events, buffered>>

\* chat_completions up to the turn's first stream request: get_mcp_client
\* returns the global client, get_tool_names raises on a closed client (the
\* request fails without a session), a ChatSession is created over the client
\* and process_message or astream_message appends the user message.
ChatCompletions(r) ==
    /\ requests[r].pc = "none"
    /\ \E user_input \in UserInputs :
          requests' = [requests EXCEPT ![r] =
              IF session
              THEN [pc |-> "request",
                    messages |-> <<SystemMessage(create_system_prompt(tool_names)),
                                   HumanMessage(user_input)>>,
                    response_content |-> <<>>, calls |-> <<>>, ended |-> "running"]
              ELSE [NoRequest EXCEPT !.pc = "done", !.ended = "error"]]
    /\ UNCHANGED <<session, tools_cache, chat, ops, transport, sse_events, buffered>>

\* The request's session asks the LLM for a stream and accumulates it.
ServerStream(r) ==
    /\ requests[r].pc = "request"
    /\ Len(requests[r].messages) + 2 <= MaxMessages
    /\ \E s \in ServerScripts :
          requests' = [requests EXCEPT ![r].pc = "streaming",
                                       ![r].response_content = Concat(s)]
    /\ UNCHANGED <<session, tools_cache, chat, ops, transport, sse_events, buffered>>

\* The stream raises: the except branch ends the turn, nothing is appended.
ServerStreamFail(r) ==
    /\ requests[r].pc = "streaming"
    /\ requests' = [requests EXCEPT ![r].pc = "done", ![r].ended = "error"]
    /\ UNCHANGED <<session, tools_cache, chat, ops, transport, sse_events, buffered>>

\* The stream ends: the assistant message is appended and the tool handler
\* runs on it, over the global client.
ServerStreamEnd(r) ==
    /\ requests[r].pc = "streaming"
    /\ \E remote \in Remote :
          LET o == extract_and_process_tool_request(requests[r].response_content,
                                                    tools_cache, session, remote, TRUE)
          IN  /\ requests' = [requests EXCEPT
                     ![r].messages = Append(@, AIMessage(requests[r].response_content))
                                         \o o.appended,
                     ![r].calls = @ \o o.calls,
                     ![r].pc = IF o.should_continue THEN "request" ELSE "done",
                     ![r].ended = IF o.should_continue THEN @ ELSE "final"]
              /\ tools_cache' = o.cache
    /\ UNCHANGED <<session, chat, ops, transport, sse_events, buffered>>

ServerNext ==
    \/ \E r \in RequestIds : ChatCompletions(r)
    \/ \E r \in RequestIds : ServerStream(r)
    \/ \E r \in RequestIds : ServerStreamFail(r)
    \/ \E r \in RequestIds : ServerStreamEnd(r)
    \/ Close

SpecServer == ServerInit /\ [][ServerNext]_vars

(***************************************************************************)
(* A session driven through astream_message by a consumer that iterates    *)
(* the generator as long as it yields ("async for" in stream_response),    *)
(* over an LLM whose every stream delivers its chunks and ends, unless it  *)
(* raises. Raising, abandoning and closing the client may happen and need  *)
(* not.                                                                    *)
(***************************************************************************)
StreamCallers == {"astream_message", "astream_message_handler"}

StreamTurnInit == Init /\ caller \in StreamCallers

\* What the scripted LLM streams to the generator: a final text, or a tool
\* request.
StreamScripts == {PlainText, SchemaAdd, ExecuteAdd}

\* Top of the while loop of astream_message.
RequestTurnStream ==
    /\ pc = "request"
    /\ Len(messages) + 2 <= MaxMessages
    /\ \E s \in StreamScripts : script' = s
    /\ response_content' = <<>>
    /\ reqLen' = Append(reqLen, Len(messages))
    /\ pc' = "streaming"
    /\ UNCHANGED <<messages, session, tools_cache, caller, handler, yielded, console,
                   ret, ended, turnLen, calls>>
    /\ UNCHANGED others

\* The steps of a turn that are taken when they stay possible: the consumer's
\* iterations, the loop's next stream request and the stream's next chunk.
TurnProgress ==
    \/ FirstNext
    \/ RequestTurnStream
    \/ NextChunk
    \/ ResumeAfterChunk
    \/ ResumeAfterError

\* A stream that has delivered its chunks ends when it stays at its end:
\* WF_vars(StreamEnd), with ENABLED <<StreamEnd>>_vars written out as the
\* guard of StreamEnd (each of its steps appends the assistant message).
StreamEndFairness ==
    \/ []<>~(pc = "streaming" /\ script = <<>>)
    \/ []<><<StreamEnd>>_vars

StreamTurnNext ==
    \/ StartTurn
    \/ FirstNext
    \/ RequestTurnStream
    \/ NextChunk
    \/ ResumeAfterChunk
    \/ StreamFail
    \/ ResumeAfterError
    \/ StreamEnd
    \/ Abandon
    \/ Close

SpecStream ==
    StreamTurnInit /\ [][StreamTurnNext]_vars /\ WF_vars(TurnProgress) /\ StreamEndFairness

(***************************************************************************)
(* The two front ends of a ChatSession: the console client (client.py),    *)
(* which drives one session through process_message turn after turn, and   *)
(* the HTTP server (api_server.py), which creates a session per request.   *)
(* The process is started as the one or as the other.                      *)
(***************************************************************************)
\* The process after start-up: the registry client is connected, the console
\* client has created its session, the server has received no request.
FrontEndInit == Init /\ caller = "process_message"

\* The process runs as the console client: no HTTP request is ever received.
IsConsoleClient == \A r \in RequestIds : requests[r].pc = "none"
\* The process runs as the HTTP server: the console's session takes no turn.
IsServer == ended = "none"

FrontEndNext ==
    \/ IsConsoleClient /\ StartTurn
    \/ IsConsoleClient /\ RequestStream
    \/ IsConsoleClient /\ NextChunk
    \/ IsConsoleClient /\ StreamFail
    \/ IsConsoleClient /\ StreamEnd
    \/ \E r \in RequestIds : IsServer /\ ChatCompletions(r)
    \/ \E r \in RequestIds : IsServer /\ ServerStream(r)
    \/ \E r \in RequestIds : IsServer /\ ServerStreamFail(r)
    \/ \E r \in RequestIds : IsServer /\ ServerStreamEnd(r)
    \/ Close

SpecFrontEnds == FrontEndInit /\ [][FrontEndNext]_vars

(***************************************************************************)
(* The life cycle of the registry client: sequential calls of connect,     *)
(* close, get_tool_names and execute_tool on a client just constructed     *)
(***************************************************************************)
\* MCPToolAgent.__init__: no session, no streams, an empty exit stack and an
\* empty cache; no chat turn is in progress.
ConnectInit ==
    /\ messages = <<SystemMessage(create_system_prompt(tool_names))>>
    /\ session = FALSE
    /\ tools_cache = EmptyObj
    /\ caller = "process_message"
    /\ pc = "idle"
    /\ script = <<>>
    /\ response_content = <<>>
    /\ handler = <<>>
    /\ yielded = <<>>
    /\ console = <<>>
    /\ ret = <<>>
    /\ ended = "none"
    /\ reqLen = <<>>
    /\ turnLen = 1
    /\ calls = <<>>
    /\ ops = <<>>
    /\ requests = [r \in RequestIds |-> NoRequest]
    /\ read_stream = FALSE
    /\ write_stream = FALSE
    /\ exit_stack = <<>>
    /\ sse_events = <<>>
    /\ buffered = NoBuffered

\* A call on the client as ops records it.
Op(op, name, r) ==
    [op |-> op, name |-> name, raised |-> r.raised, value |-> r.value, err |-> r.err,
     made |-> r.calls]

\* await client.connect(), run to its return or its raise.
Connect ==
    /\ Len(ops) < MaxOps
    /\ \E outcome \in ConnectOutcomes :
          LET r == connect(Client, outcome)
          IN  /\ session' = r.client.session
              /\ read_stream' = r.client.read_stream
              /\ write_stream' = r.client.write_stream
              /\ exit_stack' = r.client.exit_stack
              /\ ops' = Append(ops, [op |-> "connect", name |-> <<>>,
                                     raised |-> r.raised, value |-> <<>>,
                                     err |-> r.err, made |-> <<>>])
    /\ UNCHANGED <<tools_cache, chat, requests, sse_events, buffered>>

\* await client.get_tool_names(), run to its return or its raise.
GetToolNames ==
    /\ Len(ops) < MaxOps
    /\ \E remote \in Remote \ {"nontext"} :
          ops' = Append(ops, Op("get_tool_names", <<>>, get_tool_names(session, remote)))
    /\ UNCHANGED <<session, tools_cache, chat, requests, transport, sse_events, buffered>>

\* await client.execute_tool("add", {...}), run to its return or its raise.
ExecuteTool ==
    /\ Len(ops) < MaxOps
    /\ \E remote \in Remote :
          ops' = Append(ops, Op("execute_tool", Str("add"),
                                execute_tool(Str("add"), <<LB, KV, RB>>, tools_cache,
                                             session, remote)))
    /\ UNCHANGED <<session, tools_cache, chat, requests, transport, sse_events, buffered>>

ConnectNext ==
    \/ Connect
    \/ Close
    \/ GetToolNames
    \/ ExecuteTool

SpecConnect == ConnectInit /\ [][ConnectNext]_vars

\* Every operation of the registry client, in every order.
RegistryNext ==
    \/ Connect
    \/ Close
    \/ GetToolNames
    \/ GetToolSchema
    \/ ExecuteTool

SpecRegistry == ConnectInit /\ [][RegistryNext]_vars

(***************************************************************************)
(* api_server.stream_response: the body of one streaming HTTP response,    *)
(* produced by iterating astream_message with the response collector as    *)
(* output handler on the request's new session. The generator catches the  *)
(* exceptions of its stream cycle itself and yields their text as a chunk, *)
(* so the "except Exception" of stream_response has nothing to catch.      *)
(***************************************************************************)
\* f"data: {...}\n\n": one event of the response.
Event(data) == [field |-> "data: ", data |-> data, end |-> "\n\n"]
\* json.dumps of a chat.completion.chunk object, by what its delta holds (a
\* role, a content, or nothing) and its finish_reason.
ChunkJson(role, content, finish_reason) ==
    [text |-> "json", role |-> role, content |-> content, finish_reason |-> finish_reason]
RoleChunk == Event(ChunkJson("assistant", <<>>, "None"))
ContentChunk(chunk) == Event(ChunkJson("", chunk, "None"))
FinalChunk == Event(ChunkJson("", <<>>, "stop"))
Done == Event([text |-> "[DONE]", role |-> "", content |-> <<>>, finish_reason |-> ""])

\* chat_completions has created the session and returned the
\* StreamingResponse; nothing of its body has been produced.
StreamResponseInit == Init /\ caller = "astream_message_handler"

\* The body starts: the initial chunk with the role.
SendRoleChunk ==
    /\ sse_events = <<>>
    /\ buffered = NoBuffered
    /\ sse_events' = <<RoleChunk>>
    /\ UNCHANGED <<session, tools_cache, chat, ops, requests, transport, buffered>>

\* session.astream_message(user_message, output_handler=collector): the one
\* turn of the request's session.
CallAstreamMessage == sse_events = <<RoleChunk>> /\ ended = "none" /\ StartTurn

\* "if chunk: yield ..." on a chunk of the stream, and the next iteration.
ForwardChunk ==
    /\ pc = "yielded"
    /\ LET chunk == yielded[Len(yielded)]
       IN  sse_events' = IF chunk # <<>> THEN Append(sse_events, ContentChunk(chunk))
                         ELSE sse_events
    /\ pc' = "streaming"
    /\ UNCHANGED <<messages, session, tools_cache, caller, script, response_content,
                   handler, yielded, console, ret, ended, reqLen, turnLen, calls>>
    /\ UNCHANGED <<ops, requests, transport, buffered>>

\* "if chunk: yield ..." on the error text the generator yields from its
\* except branch, and the next iteration, at which the generator finishes.
ForwardErrorText ==
    /\ pc = "error_yielded"
    /\ LET chunk == yielded[Len(yielded)]
       IN  sse_events' = IF chunk # <<>> THEN Append(sse_events, ContentChunk(chunk))
                         ELSE sse_events
    /\ pc' = "idle"
    /\ ended' = "error"
    /\ UNCHANGED <<messages, session, tools_cache, caller, script, response_content,
                   handler, yielded, console, ret, reqLen, turnLen, calls>>
    /\ UNCHANGED <<ops, requests, transport, buffered>>

\* The non-empty chunks the turn has yielded, in the order of the stream.
NonEmptyChunks == SelectSeq(yielded, LAMBDA c : c # <<>>)

\* The "async for" is left: the generator is exhausted, after a final answer
\* or after its error text, the loop body has run on everything it yielded,
\* and nothing has been sent since.
LoopLeft ==
    /\ pc = "idle"
    /\ ended \in {"final", "error"}
    /\ Len(sse_events) = 1 + Len(NonEmptyChunks)

\* Mutant: the final chunk is sent only for a turn that did not raise.
SendFinalChunk_OnlyOnSuccess ==
    /\ LoopLeft
    /\ sse_events' = Append(sse_events, IF ended = "final" THEN FinalChunk ELSE Done)
    /\ UNCHANGED <<session, tools_cache, chat, ops, requests, transport, buffered>>

\* After the loop: the final chunk.
SendFinalChunk ==
    /\ LoopLeft
    /\ sse_events' = Append(sse_events, FinalChunk)
    /\ UNCHANGED <<session, tools_cache, chat, ops, requests, transport, buffered>>

\* yield "data: [DONE]\n\n", the last statement of the body.
SendDone ==
    /\ sse_events # <<>>
    /\ sse_events[Len(sse_events)] = FinalChunk
    /\ sse_events' = Append(sse_events, Done)
    /\ UNCHANGED <<session, tools_cache, chat, ops, requests, transport, buffered>>

\* The HTTP client disconnects while the turn runs: the response is
\* cancelled and the generator with it.
Disconnect == sse_events # <<>> /\ Abandon

StreamResponseNext ==
    \/ SendRoleChunk
    \/ CallAstreamMessage
    \/ FirstNext
    \/ RequestTurnStream
    \/ NextChunk
    \/ ForwardChunk
    \/ StreamFail
    \/ ForwardErrorText
    \/ StreamEnd
    \/ SendFinalChunk
    \/ SendDone
    \/ Disconnect
    \/ Close

SpecStreamResponse == StreamResponseInit /\ [][StreamResponseNext]_vars

(***************************************************************************)
(* Two sessions side by side: one driven through a streaming entrypoint    *)
(* whose consumer iterates to the end, the other (buffered) through        *)
(* process_message with a response handler. Both are given the same user   *)
(* input, the same streams from the LLM, and a registry that behaves the   *)
(* same to both; no stream raises. The second session takes its cycle when *)
(* the first has ended its own.                                            *)
(***************************************************************************)
StreamingEntrypoints == {"astream_message", "astream_message_handler",
                         "process_message_api_stream"}

EquivInit ==
    /\ messages = <<SystemMessage(create_system_prompt(tool_names))>>
    /\ session \in BOOLEAN
    /\ tools_cache = EmptyObj
    /\ caller \in StreamingEntrypoints
    /\ pc = "idle"
    /\ script = <<>>
    /\ response_content = <<>>
    /\ handler = <<>>
    /\ yielded = <<>>
    /\ console = <<>>
    /\ ret = <<>>
    /\ ended = "none"
    /\ reqLen = <<>>
    /\ turnLen = 1
    /\ calls = <<>>
    /\ ops = <<>>
    /\ requests = [r \in RequestIds |-> NoRequest]
    /\ read_stream = session
    /\ write_stream = session
    /\ exit_stack = IF session THEN Connected ELSE <<>>
    /\ sse_events = <<>>
    /\ buffered = NoBuffered

\* The next turn of the streaming session, once the buffered one has
\* returned from the turn before.
StreamingCall == buffered.pc = "idle" /\ StartTurn

\* await buffered.process_message(user_input, response_handler) up to the
\* top of its loop: the user message is appended; the handler is a new one.
BufferedCall ==
    /\ buffered.pc = "idle"
    /\ pc \in {"created", "request"}
    /\ reqLen = <<>>
    /\ \E user_input \in UserInputs :
          buffered' = [buffered EXCEPT !.messages = Append(@, HumanMessage(user_input)),
                                       !.pc = "running", !.calls = <<>>,
                                       !.handler = <<>>, !.ret = <<>>,
                                       !.cycles = 0, !.seen = 0]
    /\ UNCHANGED <<session, tools_cache, chat, ops, requests, transport, sse_events>>

\* Top of the loop of both sessions: the LLM is asked for a stream and will
\* deliver the same chunks to both.
RequestBothStreams ==
    /\ pc = "request"
    /\ buffered.pc = "running"
    /\ buffered.cycles = Len(reqLen)
    /\ Len(messages) + 2 <= MaxMessages
    /\ \E s \in Scripts :
          /\ script' = s
          /\ buffered' = [buffered EXCEPT !.script = s]
    /\ response_content' = <<>>
    /\ reqLen' = Append(reqLen, Len(messages))
    /\ pc' = "streaming"
    /\ UNCHANGED <<messages, session, tools_cache, caller, handler, yielded, console,
                   ret, ended, turnLen, calls>>
    /\ UNCHANGED <<ops, requests, transport, sse_events>>

\* Mutant: process_message returns the text of its last cycle only.
BufferedCycle_ReturnsLastText ==
    /\ buffered.pc = "running"
    /\ buffered.cycles < Len(reqLen)
    /\ pc \in {"request", "idle"}
    /\ \E remote \in Remote :
          LET text == Concat(buffered.script)
              o == extract_and_process_tool_request(text, buffered.tools_cache, session,
                                                    remote, TRUE)
              answered == SubSeq(calls, buffered.seen + 1, Len(calls))
          IN  /\ (answered # <<>> /\ o.calls # <<>>) => o.calls[1].did = answered[1].did
              /\ buffered' =
                     [buffered EXCEPT
                         !.messages = Append(@, AIMessage(text)) \o o.appended,
                         !.tools_cache = o.cache,
                         !.calls = @ \o o.calls,
                         !.handler = @ \o text,
                         !.script = <<>>,
                         !.cycles = @ + 1,
                         !.seen = Len(calls),
                         !.pc = IF o.should_continue THEN "running" ELSE "idle",
                         !.ret = IF o.should_continue THEN @ ELSE text]
    /\ UNCHANGED <<session, tools_cache, chat, ops, requests, transport, sse_events>>

\* One cycle of the buffered session: the chunks are added to the handler
\* and accumulated, the assistant message is appended, the tool handler runs
\* with the response handler, over a registry that answers as it answered
\* the streaming session in its cycle; when the loop is left,
\* response_handler.get_content() is returned.
BufferedCycle ==
    /\ buffered.pc = "running"
    /\ buffered.cycles < Len(reqLen)
    /\ pc \in {"request", "idle"}
    /\ \E remote \in Remote :
          LET text == Concat(buffered.script)
              o == extract_and_process_tool_request(text, buffered.tools_cache, session,
                                                    remote, TRUE)
              answered == SubSeq(calls, buffered.seen + 1, Len(calls))
          IN  /\ (answered # <<>> /\ o.calls # <<>>) => o.calls[1].did = answered[1].did
              /\ buffered' =
                     [buffered EXCEPT
                         !.messages = Append(@, AIMessage(text)) \o o.appended,
                         !.tools_cache = o.cache,
                         !.calls = @ \o o.calls,
                         !.handler = @ \o text,
                         !.script = <<>>,
                         !.cycles = @ + 1,
                         !.seen = Len(calls),
                         !.pc = IF o.should_continue THEN "running" ELSE "idle",
                         !.ret = IF o.should_continue THEN @ ELSE buffered.handler \o text]
    /\ UNCHANGED <<session, tools_cache, chat, ops, requests, transport, sse_events>>

EquivNext ==
    \/ StreamingCall
    \/ BufferedCall
    \/ FirstNext
    \/ RequestBothStreams
    \/ NextChunk
    \/ ResumeAfterChunk
    \/ StreamEnd
    \/ BufferedCycle

SpecEquiv == EquivInit /\ [][EquivNext]_vars

(***************************************************************************)
(* api_server.get_mcp_client called by coroutines of one event loop:       *)
(* lifespan's startup and the handlers of the HTTP requests. A coroutine   *)
(* runs without interruption up to an await; "await mcp_client.connect()"  *)
(* is the one await of get_mcp_client. ops records the clients created     *)
(* and how each call ended.                                                *)
(***************************************************************************)
\* The module global: None until line 72 assigns it, and never reset.
mcp_client ==
    IF \E i \in 1..Len(ops) : ops[i].op = "MCPToolClient" THEN "MCPToolClient" ELSE "None"

\* What the client handed to a caller is at that moment: connected, still
\* inside the connect() of the caller that created it, or left closed by a
\* connect() that raised.
ClientStatus ==
    IF session THEN "connected"
    ELSE IF \E r \in RequestIds : requests[r].pc = "connect" THEN "connecting"
    ELSE "connect failed"

\* get_mcp_client up to its await, the global being None: the client is
\* created and assigned to the global, and the caller is suspended in
\* connect().
CreateClient(r) ==
    /\ requests[r].pc = "none"
    /\ Len(ops) + 2 <= MaxOps
    /\ mcp_client = "None"
    /\ ops' = Append(ops, [op |-> "MCPToolClient", name |-> Str(r), raised |-> FALSE,
                           value |-> <<>>, err |-> <<>>, made |-> <<>>])
    /\ requests' = [requests EXCEPT ![r].pc = "connect"]
    /\ UNCHANGED <<session, tools_cache, chat, transport, sse_events, buffered>>

\* get_mcp_client, the global being set: the test of line 71 fails and the
\* global is returned as it is.
ReturnClient(r) ==
    /\ requests[r].pc = "none"
    /\ Len(ops) < MaxOps
    /\ mcp_client # "None"
    /\ ops' = Append(ops, [op |-> "get_mcp_client", name |-> Str(r), raised |-> FALSE,
                           value |-> Str(ClientStatus), err |-> <<>>, made |-> <<>>])
    /\ UNCHANGED <<session, tools_cache, chat, requests, transport, sse_events, buffered>>

\* The connect() of the caller that created the client returns, and
\* get_mcp_client returns the global; or it raises, and the exception leaves
\* get_mcp_client with the global still set.
ConnectReturns(r) ==
    /\ requests[r].pc = "connect"
    /\ \E outcome \in ConnectOutcomes :
          LET c == connect(Client, outcome)
          IN  /\ session' = c.client.session
              /\ read_stream' = c.client.read_stream
              /\ write_stream' = c.client.write_stream
              /\ exit_stack' = c.client.exit_stack
              /\ ops' = Append(ops, [op |-> "get_mcp_client", name |-> Str(r),
                                     raised |-> c.raised,
                                     value |-> IF c.raised THEN <<>> ELSE Str("connected"),
                                     err |-> c.err, made |-> <<>>])
    /\ requests' = [requests EXCEPT ![r].pc = "none"]
    /\ UNCHANGED <<tools_cache, chat, sse_events, buffered>>

GetClientNext ==
    \/ \E r \in RequestIds : CreateClient(r)
    \/ \E r \in RequestIds : ReturnClient(r)
    \/ \E r \in RequestIds : ConnectReturns(r)

SpecGetClient == ConnectInit /\ [][GetClientNext]_vars

(***************************************************************************)
(* Vocabulary of the properties                                            *)
(***************************************************************************)
\* Stream requests made so far in the turn, and the turn's cycles.
Cycles == Len(reqLen)
\* Cycle i appended its assistant message (its stream completed).
CycleDone(i) == Len(messages) > reqLen[i]
\* The assistant text of the completed cycle i.
AssistantText(i) == messages[reqLen[i] + 1].content

\* What json.loads makes of the text between the first '{' and the last '}'
\* of the text; ok = FALSE when there is no such text or it is no JSON.
ObjectIn(text) ==
    LET json_start == find(text, LB)
        json_end == rfind(text, RB) + 1
    IN  IF json_start >= 0 /\ json_end > json_start
        THEN json_loads(Slice(text, json_start, json_end))
        ELSE [ok |-> FALSE, obj |-> EmptyObj]
\* The text contains a tool_request JSON.
HasToolRequestJSON(text) ==
    LET p == ObjectIn(text) IN p.ok /\ "tool_request" \in DOMAIN p.obj
\* A schema-request with its tool_name.
IsSchemaRequest(text) ==
    LET p == ObjectIn(text)
    IN  /\ p.ok
        /\ {"tool_request", "tool_name"} \subseteq DOMAIN p.obj
        /\ p.obj["tool_request"] = Str("schema")
\* An execute-request with its tool_name and arguments.
IsExecuteRequest(text) ==
    LET p == ObjectIn(text)
    IN  /\ p.ok
        /\ {"tool_request", "tool_name", "arguments"} \subseteq DOMAIN p.obj
        /\ p.obj["tool_request"] = Str("execute")
\* A tool request the dispatcher can dispatch.
IsToolRequest(text) ==
    LET p == ObjectIn(text)
    IN  /\ p.ok
        /\ {"tool_request", "tool_name"} \subseteq DOMAIN p.obj
        /\ \/ p.obj["tool_request"] = Str("schema")
           \/ p.obj["tool_request"] = Str("execute") /\ "arguments" \in DOMAIN p.obj
\* A schema- or execute-request with a required field missing.
IsMalformedRequest(text) ==
    LET p == ObjectIn(text)
    IN  /\ p.ok
        /\ "tool_request" \in DOMAIN p.obj
        /\ p.obj["tool_request"] \in {Str("schema"), Str("execute")}
        /\ ~IsToolRequest(text)

\* The text carries an error indicator of an entrypoint.
HasErrorIndicator(text) == \E i \in 1..Len(text) : text[i][1] = "error"
\* The text carries the text of an exception.
HasException(text) == \E i \in 1..Len(text) : text[i][1] = "exc"

\* The step from the current state is the end of a stream cycle (StreamEnd),
\* the failure of its stream (StreamFail), the consumer's abandonment.
IsStreamEnd == pc = "streaming" /\ Len(messages') > Len(messages)
IsStreamFail ==
    /\ pc = "streaming"
    /\ pc' = "error_yielded" \/ (pc' = "idle" /\ ended' = "error")
IsAbandon == ended # "abandoned" /\ ended' = "abandoned"

(***************************************************************************)
(* Properties                                                              *)
(***************************************************************************)
\* C1: in a turn, between two consecutive LLM stream requests the history
\* grew by exactly the assistant message of the earlier stream and one system
\* message; every completed schema- or execute-request is followed by exactly
\* one system message, and the loop is at a re-query only with that message
\* as the last of the history.
C1_OneSystemMessageBeforeRequery ==
    /\ \A i \in 1..(Cycles - 1) :
          /\ reqLen[i + 1] = reqLen[i] + 2
          /\ messages[reqLen[i] + 1].role = "assistant"
          /\ messages[reqLen[i] + 2].role = "system"
    /\ (pc = "request" /\ Cycles > 0) =>
          /\ Len(messages) = reqLen[Cycles] + 2
          /\ messages[Len(messages) - 1].role = "assistant"
          /\ messages[Len(messages)].role = "system"
    /\ \A i \in 1..Cycles :
          (CycleDone(i) /\ IsToolRequest(AssistantText(i))) =>
              /\ Len(messages) >= reqLen[i] + 2
              /\ messages[reqLen[i] + 2].role = "system"
              /\ i = Cycles => (pc = "request" /\ Len(messages) = reqLen[i] + 2)

\* C1 witness: a turn re-queried the model twice, the second time after a
\* failed registry call.
C1_Witness ==
    /\ Cycles = 3
    /\ messages[reqLen[2] + 2].content[1] = <<"sys", "Error executing tool: ">>
    /\ messages[reqLen[1] + 2].content[1] = <<"sys", "Use the following schema for tool '">>

\* C2 (as claimed): every assistant message that is a schema- or
\* execute-request with a required field missing is followed in the history
\* by a system message (the error fed back before the model is re-queried).
C2_MalformedRequestContinues ==
    \A i \in 2..Len(messages) :
        (messages[i].role = "assistant" /\ IsMalformedRequest(messages[i].content)) =>
            /\ i < Len(messages)
            /\ messages[i + 1].role = "system"

\* C3: when the text of a turn's first completed cycle contains no
\* tool_request JSON, the turn is over after that one cycle: it appended the
\* user message and one assistant message holding the accumulated chunks of
\* the stream, made no registry call, and a buffered call returned that text.
C3_PlainTextEndsTurnInOneCycle ==
    (Cycles > 0 /\ CycleDone(1) /\ ~HasToolRequestJSON(AssistantText(1))) =>
        /\ Cycles = 1
        /\ pc = "idle"
        /\ ended = "final"
        /\ Len(messages) = turnLen + 2
        /\ messages[turnLen + 1].role = "user"
        /\ messages[turnLen + 2].role = "assistant"
        /\ messages[turnLen + 2].content \in {Concat(s) : s \in Scripts}
        /\ calls = <<>>
        /\ IsBuffered(caller) => ret = <<messages[turnLen + 2].content>>

\* C3 witness: a buffered turn over plain text has returned.
C3_Witness ==
    /\ ended = "final"
    /\ Cycles = 1
    /\ IsBuffered(caller)
    /\ ret = <<Concat(PlainText)>>
    /\ messages[Len(messages)] = AIMessage(Concat(PlainText))

\* C4: a turn that ended without a stream failure after n cycles appended the
\* user message, then for each of the first n-1 cycles the assistant message
\* with its tool request and one system message, then the final assistant
\* message, and nothing else; the completion of a cycle whose text is a tool
\* request does not end the turn.
C4_HistoryOfATurn ==
    /\ ended = "final" =>
          /\ Cycles >= 1
          /\ Len(messages) = turnLen + 2 * Cycles
          /\ messages[turnLen + 1].role = "user"
          /\ \A j \in 1..(Cycles - 1) :
                /\ messages[turnLen + 2 * j].role = "assistant"
                /\ IsToolRequest(messages[turnLen + 2 * j].content)
                /\ messages[turnLen + 2 * j + 1].role = "system"
          /\ messages[turnLen + 2 * Cycles].role = "assistant"
          /\ ~IsToolRequest(messages[turnLen + 2 * Cycles].content)
    /\ \A i \in 1..Cycles :
          (CycleDone(i) /\ IsToolRequest(AssistantText(i))) =>
              /\ Len(messages) >= reqLen[i] + 2
              /\ i = Cycles => (ended = "running" /\ pc = "request")

\* C4 witness: schema-request, execute-request, then text: the turn appended
\* user, assistant, system, assistant, system, assistant.
C4_Witness ==
    /\ ended = "final"
    /\ Cycles = 3
    /\ Len(messages) = turnLen + 6
    /\ IsSchemaRequest(messages[turnLen + 2].content)
    /\ IsExecuteRequest(messages[turnLen + 4].content)
    /\ [i \in 1..6 |-> messages[turnLen + i].role]
           = <<"user", "assistant", "system", "assistant", "system", "assistant">>

\* C5 (as claimed): after a turn with a tool round-trip, the text a buffered
\* call returns is the content of the final assistant message only.
C5_ReturnsFinalTextOnly ==
    (ended = "final" /\ IsBuffered(caller) /\ Cycles >= 2) =>
        ret = <<messages[Len(messages)].content>>

\* C6: a step in which the LLM stream raises leaves the history as it was
\* when the cycle's stream was requested (after the user message, in the first
\* cycle), with no assistant message for the cycle, and ends the turn: the
\* call returns, or the generator yields its error and then finishes.
C6_FailedStreamAppendsNothing ==
    [][/\ IsStreamFail =>
              /\ messages' = messages
              /\ Len(messages') = reqLen[Cycles]
              /\ messages'[Len(messages')].role # "assistant"
              /\ Cycles = 1 =>
                    (Len(messages') = turnLen + 1 /\ messages'[Len(messages')].role = "user")
       /\ pc = "error_yielded" =>
              /\ messages' = messages
              /\ reqLen' = reqLen
              /\ pc' \in {"error_yielded", "idle"}
              /\ pc' = "idle" => ended' = "error"
      ]_vars

\* C6 witness: the stream of a second cycle raised after chunks were emitted.
C6_Witness ==
    /\ ended = "error"
    /\ Cycles = 2
    /\ response_content # <<>>
    /\ Len(messages) = reqLen[2]

\* C7 (as claimed): after a turn whose LLM stream raised, an error indicator
\* is in the text the buffered call returned, or among the chunks the
\* generator yielded (for process_message without a handler, on the console).
C7_ErrorReachesCaller ==
    ended = "error" =>
        IF IsGenerator(caller) THEN \E i \in 1..Len(yielded) : HasErrorIndicator(yielded[i])
        ELSE IF caller = "process_message" THEN HasErrorIndicator(console)
        ELSE ret # <<>> /\ HasErrorIndicator(ret[1])

\* C8: when the consumer abandons the generator, the step changes neither
\* the history nor the registry calls nor the stream requests; abandoned
\* inside a stream cycle, the history is the one the cycle's stream was
\* requested over (no partial assistant message); and as long as the turn
\* stays abandoned no message, stream request or registry call is added.
C8_AbandonedStreamAppendsNothing ==
    [][/\ IsAbandon =>
              /\ messages' = messages
              /\ calls' = calls
              /\ reqLen' = reqLen
              /\ tools_cache' = tools_cache
              /\ pc' = "idle"
              /\ pc \in {"yielded", "streaming"} =>
                    /\ Len(messages') = reqLen[Cycles]
                    /\ messages'[Len(messages')].role # "assistant"
       /\ (ended = "abandoned" /\ ended' = "abandoned") =>
              (messages' = messages /\ calls' = calls /\ reqLen' = reqLen)
      ]_vars

\* C8 witness: a generator was abandoned in its second cycle, after a chunk.
C8_Witness ==
    /\ ended = "abandoned"
    /\ Cycles = 2
    /\ response_content # <<>>
    /\ Len(calls) = 1

\* The text of a transport or connection failure of the registry.
HasTransportFailure(text) ==
    \E i \in 1..Len(text) : text[i] \in {NotConnected[1], TransportError[1]}
\* The request cannot be answered without a round-trip to the registry.
NeedsRegistry(text) ==
    \/ IsExecuteRequest(text)
    \/ IsSchemaRequest(text) /\ ObjectIn(text).obj["tool_name"] \notin DOMAIN tools_cache
\* In the step, the registry call of the handler failed for the transport or
\* the connection: the client was not connected, or the round-trip raised.
RegistryTransportFailed ==
    \/ ~session /\ NeedsRegistry(response_content)
    \/ Len(calls') > Len(calls) /\ calls'[Len(calls')].did = "raised"
\* In the step, execute_tool raised.
ExecuteToolRaised ==
    /\ IsExecuteRequest(response_content)
    /\ ~session \/ (Len(calls') > Len(calls) /\ calls'[Len(calls')].did = "raised")

ErrorPrefix(text) ==
    IF IsExecuteRequest(text) THEN <<"sys", "Error executing tool: ">>
    ELSE <<"sys", "Error getting schema: ">>

\* C9 (as claimed): a transport or connection failure of the registry is
\* never appended to the history as a system message.
C9_RegistryFailureNotFedBack ==
    \A i \in 2..Len(messages) :
        messages[i].role = "system" => ~HasTransportFailure(messages[i].content)

\* C9 (amended): when the registry call of a schema- or execute-request fails
\* for the transport or the connection, the step appends the assistant
\* message and exactly one system message, whose text is the error text of the
\* request's kind followed by the failure's text, and the turn goes on to
\* re-query the model.
C9_RegistryFailureIsFedBack ==
    [][(IsStreamEnd /\ IsToolRequest(response_content) /\ RegistryTransportFailed) =>
           /\ Len(messages') = Len(messages) + 2
           /\ SubSeq(messages', 1, Len(messages)) = messages
           /\ messages'[Len(messages) + 1] = AIMessage(response_content)
           /\ messages'[Len(messages) + 2].role = "system"
           /\ messages'[Len(messages) + 2].content[1] = ErrorPrefix(response_content)
           /\ HasTransportFailure(messages'[Len(messages) + 2].content)
           /\ pc' = "request"
           /\ ended' = "running"
      ]_vars

\* C9 witness: a turn recorded a round-trip that raised and then, the client
\* closed, a schema lookup that found it not connected, and is at a re-query.
C9_Witness ==
    /\ pc = "request"
    /\ Cycles = 2
    /\ messages[reqLen[1] + 2].content =
           <<<<"sys", "Error executing tool: ">>>> \o TransportError
    /\ messages[reqLen[2] + 2].content =
           <<<<"sys", "Error getting schema: ">>>> \o NotConnected

\* C10: when execute_tool raises for an execute-request, the step appends the
\* assistant message and exactly one system message, whose text starts with
\* "Error executing tool:" and carries the exception's text, and the turn goes
\* on to re-query the model.
C10_ExecuteErrorIsRecorded ==
    [][(IsStreamEnd /\ ExecuteToolRaised) =>
           /\ Len(messages') = Len(messages) + 2
           /\ messages'[Len(messages) + 1] = AIMessage(response_content)
           /\ messages'[Len(messages) + 2].role = "system"
           /\ messages'[Len(messages) + 2].content[1] = <<"sys", "Error executing tool: ">>
           /\ HasException(messages'[Len(messages) + 2].content)
           /\ pc' = "request"
           /\ ended' = "running"
      ]_vars

\* C10 witness: the model was re-queried after the error of an execute_tool
\* call that reached the server, and the turn ended with its answer.
C10_Witness ==
    /\ ended = "final"
    /\ Cycles = 2
    /\ calls = <<CallTool(Str("add"), <<LB, KV, RB>>, "raised")>>
    /\ messages[reqLen[1] + 2].content[1] = <<"sys", "Error executing tool: ">>
    /\ messages[Len(messages)].role = "assistant"

\* The name a schema- or execute-request asks for.
RequestedTool(text) == ObjectIn(text).obj["tool_name"]
\* In the step, the last registry round-trip of the handler raised.
RoundTripRaised == Len(calls') > Len(calls) /\ calls'[Len(calls')].did = "raised"
\* In the step, get_tool_schema raises for the schema-request of the cycle:
\* the name is not cached and the client is not connected, the round-trip
\* raises, or the registry does not list the name.
SchemaLookupFails ==
    /\ IsSchemaRequest(response_content)
    /\ RequestedTool(response_content) \notin DOMAIN tools_cache
    /\ \/ ~session
       \/ RoundTripRaised
       \/ RequestedTool(response_content) \notin RegisteredTools
\* str(e) of the exception get_tool_schema raises in the step.
SchemaLookupError ==
    IF ~session THEN NotConnected
    ELSE IF RoundTripRaised THEN TransportError
    ELSE ToolNotFound(RequestedTool(response_content))

\* C11: when get_tool_schema fails for the schema-request of a cycle (unknown
\* tool, transport error, client not connected), the step appends the
\* assistant message and exactly one system message, "Error getting schema: "
\* followed by the text of the exception, caches nothing, and the turn goes on
\* to re-query the model.
C11_SchemaErrorIsFedBack ==
    [][(IsStreamEnd /\ SchemaLookupFails) =>
           /\ messages' = messages \o
                  <<AIMessage(response_content),
                    SystemMessage(<<<<"sys", "Error getting schema: ">>>>
                                      \o SchemaLookupError)>>
           /\ tools_cache' = tools_cache
           /\ pc' = "request"
           /\ ended' = "running"
      ]_vars

\* C11 witness: the model was re-queried after the schema-request of a tool
\* the registry does not list, and again after one on a closed client.
C11_Witness ==
    /\ pc = "streaming"
    /\ Cycles = 3
    /\ messages[reqLen[1] + 2].content =
           <<<<"sys", "Error getting schema: ">>>> \o ToolNotFound(Str("nope"))
    /\ messages[reqLen[2] + 2].content =
           <<<<"sys", "Error getting schema: ">>>> \o NotConnected

ExecuteAnswered == Len(calls') > Len(calls) /\ calls'[Len(calls')].did = "answered"

EmbedsAt(text, part, k) ==
    /\ k + Len(part) <= Len(text)
    /\ SubSeq(text, k + 1, k + Len(part)) = part
LeadingProse(text, k) == SubSeq(text, 1, k)
TrailingProse(text, part, k) == SubSeq(text, k + Len(part) + 1, Len(text))
Contains(text, ch) == \E i \in 1..Len(text) : text[i] = ch

\* The first cycle dispatched exactly the execute-request e: one system
\* message follows the assistant message, the loop goes on, and a connected
\* client was asked for call_tool with the name and the arguments of e (a
\* client that is not connected raised in execute_tool, before any call).
Recovered(e) ==
    /\ pc = "request"
    /\ Len(messages) = reqLen[1] + 2
    /\ messages[reqLen[1] + 2].role = "system"
    /\ session =>
          /\ Len(calls) = 1
          /\ calls[1].op = "call_tool"
          /\ calls[1].name = e.tool_name
          /\ calls[1].args = e.arguments
    /\ ~session =>
          /\ calls = <<>>
          /\ messages[reqLen[1] + 2].content =
                 <<<<"sys", "Error executing tool: ">>>> \o NotConnected

\* C14 (as claimed): whenever the assistant text of a completed cycle embeds
\* a well-formed execute-request, whatever the prose before and after it,
\* braces included, the handler dispatched exactly that request.
C14_RecoveredWhateverTheProse ==
    CycleDone(1) =>
        \A e \in ExecuteRequests : \A k \in 0..Len(AssistantText(1)) :
            EmbedsAt(AssistantText(1), e.text, k) => Recovered(e)

\* C14 (amended): whenever the assistant text of a completed cycle embeds a
\* well-formed execute-request after prose without '{' and before prose
\* without '}', the handler dispatched exactly that request.
C14_RecoveredUnlessBracesAround ==
    CycleDone(1) =>
        \A e \in ExecuteRequests : \A k \in 0..Len(AssistantText(1)) :
            (/\ EmbedsAt(AssistantText(1), e.text, k)
             /\ ~Contains(LeadingProse(AssistantText(1), k), LB)
             /\ ~Contains(TrailingProse(AssistantText(1), e.text, k), RB))
                => Recovered(e)

\* C14 witness: an execute-request for add was dispatched from a text with a
\* '}' in the prose before it and a '{' in the prose after it.
C14_Witness ==
    /\ CycleDone(1)
    /\ AssistantText(1) = <<RB, W, LB, TR("execute"), TN("add"), ARGS, LB, KV, RB, RB,
                            W, LB>>
    /\ calls = <<CallTool(Str("add"), <<LB, KV, RB>>, "answered")>>
    /\ pc = "request"

\* No '{' of the text precedes a later '}'.
NoBracePair(text) ==
    ~\E i \in 1..Len(text) : \E j \in (i + 1)..Len(text) :
        text[i] = LB /\ text[j] = RB

\* The first cycle ended the turn on its text as the final answer: the
\* assistant message is the last of the history, no registry call was made,
\* nothing was cached.
TakenAsFinalAnswer ==
    /\ pc = "idle"
    /\ ended = "final"
    /\ Cycles = 1
    /\ Len(messages) = reqLen[1] + 1
    /\ messages[Len(messages)] = AIMessage(AssistantText(1))
    /\ calls = <<>>
    /\ tools_cache = EmptyObj

\* C15: when the assistant text of a completed cycle has no '{' that precedes
\* a later '}', the handler returned the no-continue signal (the turn is
\* over), made no registry call and appended nothing after the assistant
\* message.
C15_NoBracePairNoToolCall ==
    (CycleDone(1) /\ NoBracePair(AssistantText(1))) => TakenAsFinalAnswer

\* C15 witness: a turn ended on a text whose only '}' comes before its only '{'.
C15_Witness ==
    /\ ended = "final"
    /\ CycleDone(1)
    /\ AssistantText(1) = <<RB, W, LB>>
    /\ Len(messages) = 3

\* Nothing the caller sees carries an error: the console, the handler's
\* content, the chunks yielded, the value returned.
NoErrorSurfaced ==
    /\ \A i \in 1..Len(console) : console[i][1] # "console_error"
    /\ ~HasErrorIndicator(handler)
    /\ \A i \in 1..Len(yielded) : ~HasErrorIndicator(yielded[i])
    /\ \A i \in 1..Len(ret) : ~HasErrorIndicator(ret[i])

\* C16: when the text from the first '{' to the last '}' of the assistant
\* text of a completed cycle is not valid JSON, or is a JSON object without a
\* tool_request key, the text is a final answer: no system message is
\* appended, no registry call is made, no error is surfaced, and the turn
\* ends after that cycle.
C16_UnparsableIsFinalAnswer ==
    (/\ CycleDone(1)
     /\ ~NoBracePair(AssistantText(1))
     /\ \/ ~ObjectIn(AssistantText(1)).ok
        \/ "tool_request" \notin DOMAIN ObjectIn(AssistantText(1)).obj)
        => (TakenAsFinalAnswer /\ NoErrorSurfaced)

\* C16 witness: the console client ended a turn on an execute-request that a
\* '{' before it and a '}' after it made invalid JSON.
C16_Witness ==
    /\ caller = "process_message"
    /\ ended = "final"
    /\ CycleDone(1)
    /\ AssistantText(1) = <<LB, LB, TR("execute"), TN("add"), ARGS, LB, KV, RB, RB, RB>>
    /\ console = AssistantText(1)

\* The calls of get_tool_schema for the name that returned a schema.
Found(name) ==
    {i \in 1..Len(ops) :
        ops[i].op = "get_tool_schema" /\ ops[i].name = name /\ ~ops[i].raised}

\* C17: over the sequential get_tool_schema calls made on one registry
\* client, for each tool name: at most one call that found the name made a
\* list_tools round-trip; the schema a call found is the one tools_cache holds
\* for the name; and every call for the name after one that found it returns
\* that same schema and makes no round-trip, also on a closed client.
C17_FoundSchemaIsFetchedOnce ==
    \A name \in ToolNames :
        /\ Cardinality({i \in Found(name) : ops[i].made # <<>>}) <= 1
        /\ \A i \in Found(name) :
              /\ name \in DOMAIN tools_cache
              /\ tools_cache[name] = ops[i].value
              /\ \A j \in (i + 1)..Len(ops) :
                    ops[j].name = name =>
                        /\ ~ops[j].raised
                        /\ ops[j].value = ops[i].value
                        /\ ops[j].made = <<>>

\* C17 witness: "add" was found with one round-trip after a transport error,
\* then served from the cache, the second time on a closed client.
C17_Witness ==
    /\ Len(ops) = 4
    /\ ~session
    /\ [i \in 1..4 |-> ops[i].name] = <<Str("add"), Str("add"), Str("add"), Str("add")>>
    /\ ops[1].raised
    /\ ops[2].made = <<ListTools("answered")>>
    /\ ops[3].made = <<>> /\ ops[3].value = SchemaOf(Str("add"))
    /\ ops[4].made = <<>> /\ ops[4].value = SchemaOf(Str("add"))

\* C18: in every step (turn start, first iteration of a generator, stream
\* request, chunk, stream completion with its tool dispatch, stream failure,
\* abandonment, close of the client) the history before the step is a prefix
\* of the history after it.
C18_HistoryIsAppendOnly ==
    [][/\ Len(messages') >= Len(messages)
       /\ SubSeq(messages', 1, Len(messages)) = messages
      ]_vars

\* C18 witness: a first turn ended in a stream failure after a tool
\* round-trip, and a second turn was abandoned after a chunk of its stream.
C18_Witness ==
    /\ ended = "abandoned"
    /\ turnLen = 4
    /\ response_content # <<>>
    /\ [i \in 1..Len(messages) |-> messages[i].role] =
           <<"system", "user", "assistant", "system", "user">>

\* The system message that feeds a schema back.
IsSchemaMessage(m) ==
    /\ m.role = "system"
    /\ m.content[1] = <<"sys", "Use the following schema for tool '">>

\* C19 (as claimed): each session has a schema cache of its own, so a
\* session that fed a schema back to its model fetched it from the registry
\* itself: a list_tools round-trip is among its own registry calls.
C19_SchemaCacheIsPerSession ==
    \A r \in RequestIds :
        (\E i \in 1..Len(requests[r].messages) : IsSchemaMessage(requests[r].messages[i]))
            => \E j \in 1..Len(requests[r].calls) :
                   requests[r].calls[j] = ListTools("answered")

\* C20: under a model that answers every query with a tool request, with no
\* stream failure and no abandonment, a turn that started never ends and
\* never returns to idle; every cycle it completed was a tool round-trip
\* (assistant message and system message), and at the top of its loop it asks
\* the model again whenever the bound of this model on the history leaves
\* room: no count of round-trips stops it.
C20_NoCeilingOnRoundTrips ==
    /\ ended \in {"none", "running"}
    /\ ended = "running" => pc # "idle"
    /\ pc = "request" =>
          /\ Len(messages) = turnLen + 1 + 2 * Cycles
          /\ Len(messages) + 2 <= MaxMessages => ENABLED RequestToolStream

\* C20 witness: three consecutive tool round-trips in one turn, the loop at
\* its top for a fourth query.
C20_Witness ==
    /\ pc = "request"
    /\ ended = "running"
    /\ Cycles = 3
    /\ Len(messages) = turnLen + 7
    /\ \A i \in 1..3 : IsToolRequest(AssistantText(i))

\* The turn is over: the call returned, or the generator finished or was
\* abandoned.
TurnOver == pc = "idle" /\ ended \in {"final", "error", "abandoned"}
\* The loop is at its top after the outcome of a tool request, or after the
\* user message, and the bound of this model on the history leaves no room
\* for the next stream: the model has not yet produced its final text.
StillInToolLoop ==
    /\ pc = "request"
    /\ Len(messages) + 2 > MaxMessages
    /\ messages[Len(messages)].role \in {"user", "system"}

\* C21: a turn of astream_message whose consumer keeps iterating ends unless
\* the model goes on asking for tools: the generator finishes after a text
\* that is no tool request or after a stream that raised. Once the turn is
\* over, every step that is not the start of the next turn leaves the chunks
\* yielded, the stream requests and the history as they are.
C21_StreamingTurnIsFiniteAndCloses ==
    /\ (ended = "running") ~> (TurnOver \/ StillInToolLoop)
    /\ [][TurnOver =>
              \/ /\ yielded' = yielded
                 /\ reqLen' = reqLen
                 /\ messages' = messages
                 /\ TurnOver'
              \/ /\ ended' = "running"
                 /\ turnLen' = Len(messages)
                 /\ yielded' = <<>>
                 /\ reqLen' = <<>>
                 /\ messages' = messages
         ]_vars

\* C21 witness: the generator of a session's first turn finished after a
\* tool round-trip and a final text, and the generator of its second turn
\* after the error chunk of a stream that raised.
C21_Witness ==
    /\ TurnOver
    /\ caller \in StreamCallers
    /\ ended = "error"
    /\ [i \in 1..Len(messages) |-> messages[i].role] =
           <<"system", "user", "assistant", "system", "assistant", "user">>
    /\ yielded = <<ErrorIndicator(caller, StreamError)>>

\* The chunks with content among the chunks a stream produced.
WithContent(chunks) == SelectSeq(chunks, LAMBDA c : c # <<>>)
\* The chunks yielded, and the content handed to the handler, without the
\* error indicator of a failed stream.
ChunksYielded == SelectSeq(yielded, LAMBDA c : ~HasErrorIndicator(c))
ContentHandled == SelectSeq(handler, LAMBDA t : t[1] \notin {"error", "exc"})
\* The text of the turn's cycles 1..i in order: the assistant message of a
\* completed cycle, the text accumulated so far of the cycle in progress (or
\* of the cycle that failed or was abandoned).
RECURSIVE StreamedText(_)
StreamedText(i) ==
    IF i = 0 THEN <<>>
    ELSE StreamedText(i - 1)
             \o (IF CycleDone(i) THEN AssistantText(i) ELSE response_content)

\* C22: inside a stream cycle, what was forwarded so far is what the LLM
\* stream produced so far, chunk by chunk and in its order: the stream is a
\* script s of which k chunks were consumed, the text accumulated is the
\* concatenation of those chunks, and the generator's last yields are those
\* of them that have content. Over the turn, the chunks yielded and the
\* content handed to the handler, concatenated in the order forwarded, are
\* the texts of the turn's cycles in order, each completed cycle's text being
\* the content of the assistant message it appended.
C22_ChunksAreForwardedInOrder ==
    /\ pc \in {"streaming", "yielded"} =>
          \E s \in Scripts : \E k \in 0..Len(s) :
              LET consumed == WithContent(SubSeq(s, 1, k))
                  n == Len(yielded) - Len(consumed)
              IN  /\ script = SubSeq(s, k + 1, Len(s))
                  /\ response_content = Concat(consumed)
                  /\ IsGenerator(caller) =>
                        /\ n >= 0
                        /\ SubSeq(yielded, n + 1, Len(yielded)) = consumed
    /\ \A i \in 1..Cycles :
          CycleDone(i) => messages[reqLen[i] + 1].role = "assistant"
    /\ IsGenerator(caller) => Concat(ChunksYielded) = StreamedText(Cycles)
    /\ HasHandler(caller) => ContentHandled = StreamedText(Cycles)

\* C22 witness: a generator with a handler forwarded the two chunks of a
\* schema-request and the two chunks with content of the final text, the
\* chunk without content skipped, and both are in the history.
C22_Witness ==
    /\ caller = "astream_message_handler"
    /\ ended = "final"
    /\ yielded = SchemaAdd \o <<<<W>>, <<W>>>>
    /\ handler = Concat(SchemaAdd) \o <<W, W>>
    /\ AssistantText(1) = Concat(SchemaAdd)
    /\ AssistantText(2) = <<W, W>>

\* The step ends a turn by the failure of its stream.
EndsInError == ended # "error" /\ ended' = "error"
\* The step is the call of an entrypoint for a new turn.
StartsTurn == ended # "running" /\ ended' = "running"
\* The step appends the user message of the turn: in the call, or at the
\* first iteration of the generator of astream_message.
AppendsUserMessage ==
    \E user_input \in UserInputs : messages' = Append(messages, HumanMessage(user_input))

RequestsStream == Len(reqLen') = Len(reqLen) + 1
\* In the step, stream requests are made the way a loop without retry makes
\* them: one per cycle, at the top of the loop (the one step from "request"
\* to "streaming"), none in the step in which a stream raises, and none
\* afterwards until the next turn starts.
NoRetryInStep ==
    /\ \/ reqLen' = reqLen
       \/ RequestsStream /\ SubSeq(reqLen', 1, Len(reqLen)) = reqLen
       \/ StartsTurn /\ reqLen' = <<>>
    /\ RequestsStream <=> (pc = "request" /\ pc' = "streaming")
    /\ (pc' = "streaming" /\ pc \notin {"streaming", "yielded"}) => RequestsStream
    /\ IsStreamFail => (reqLen' = reqLen /\ pc' \in {"idle", "error_yielded"})
    /\ pc = "error_yielded" => (reqLen' = reqLen /\ pc' \in {"idle", "error_yielded"})
    /\ (ended = "error" /\ ended' = "error") => reqLen' = reqLen
\* The step hands an error indicator to the caller: as the chunk yielded, on
\* the console, or in the text the call returns.
SurfacesErrorInStep ==
    IF IsGenerator(caller)
    THEN Len(yielded') = Len(yielded) + 1 /\ HasErrorIndicator(yielded'[Len(yielded')])
    ELSE IF caller = "process_message"
    THEN ~HasErrorIndicator(console) /\ HasErrorIndicator(console')
    ELSE ret' # <<>> /\ HasErrorIndicator(ret'[1])

\* C24 (as claimed): no stream is requested again after a stream raised, each
\* cycle makes exactly one stream request, and the step in which a stream
\* raises surfaces the failure to the caller.
C24_NoRetryFailureSurfacedAtOnce ==
    [][NoRetryInStep /\ (IsStreamFail => SurfacesErrorInStep)]_vars

\* The roles of the messages the current turn appended.
TurnRoles == [i \in 1..(Len(messages) - turnLen) |-> messages[turnLen + i].role]
\* user first, then assistant and system in turn.
UserThenAssistantSystem(roles) ==
    \A j \in 1..Len(roles) :
        roles[j] = IF j = 1 THEN "user" ELSE IF j % 2 = 0 THEN "assistant" ELSE "system"

UserMessages(history) == {i \in 1..Len(history) : history[i].role = "user"}
\* The history before the step is a prefix of the history after it.
Extends(after, before) ==
    Len(after) >= Len(before) /\ SubSeq(after, 1, Len(before)) = before

\* C26: a turn is started on a session only when no turn is in flight on it.
\* In the console client a turn starts from idle only; while it runs, the
\* history it found stays as it was and all that is appended after it is the
\* turn's own: one user message, then assistant and system messages. In the
\* server each request has a session of its own, which takes one turn: its
\* history holds one user message, right after the prompt; a step of a
\* request appends to that request's history only, and the history of a
\* request that was answered never changes again.
C26_TurnsDoNotInterleave ==
    [][/\ StartsTurn => (pc = "idle" /\ turnLen' = Len(messages))
       /\ (ended = "running" /\ ended' = "running") =>
              /\ turnLen' = turnLen
              /\ Extends(messages', messages)
       /\ UserMessages(messages') \cap (turnLen' + 1)..Len(messages')
              \subseteq {turnLen' + 1}
       /\ UserThenAssistantSystem(TurnRoles)'
       /\ \A r \in RequestIds :
              /\ requests[r].pc # "none" => Extends(requests'[r].messages,
                                                    requests[r].messages)
              /\ UserMessages(requests'[r].messages) \subseteq {2}
              /\ requests[r].pc = "done" => requests'[r] = requests[r]
              /\ requests'[r] # requests[r] =>
                    \A q \in RequestIds \ {r} : requests'[q] = requests[q]
      ]_vars

\* C26 witness: two requests are in flight at the server, one streaming its
\* second cycle after a tool round-trip and one its first, each over a
\* history of its own with its own user message.
C26_Witness ==
    /\ IsServer
    /\ requests["a"].pc = "streaming"
    /\ requests["b"].pc = "streaming"
    /\ [i \in 1..Len(requests["a"].messages) |-> requests["a"].messages[i].role] =
           <<"system", "user", "assistant", "system">>
    /\ [i \in 1..Len(requests["b"].messages) |-> requests["b"].messages[i].role] =
           <<"system", "user">>

\* The indices of ops at which connect was called.
ConnectCalls == {i \in 1..Len(ops) : ops[i].op = "connect"}
\* The last connect call of ops failed.
LastConnectFailed ==
    /\ ConnectCalls # {}
    /\ LET last == CHOOSE i \in ConnectCalls : \A j \in ConnectCalls : j <= i
       IN  ops[last].raised

CompleteBody ==
    <<RoleChunk>> \o [i \in 1..Len(NonEmptyChunks) |-> ContentChunk(NonEmptyChunks[i])]
                 \o <<FinalChunk, Done>>
\* The generator of the turn is exhausted, after a final answer or after the
\* error text of a stream that raised.
TurnExhausted == pc = "idle" /\ ended \in {"final", "error"}

\* C29: the body of the streaming response is made of events "data: ..."
\* each ended by a blank line, and at every moment it is the beginning of:
\* the role chunk, a content chunk for each non-empty chunk of the turn in
\* the order of the stream, the chunk with finish_reason "stop", and
\* "data: [DONE]" once, as the last event. The two last events are sent
\* only when the turn is over, every chunk having been forwarded, and they
\* are sent as well when the stream of the turn raised.
C29_ResponseBodyIsFramedAndOrdered ==
    /\ \A i \in 1..Len(sse_events) :
          sse_events[i].field = "data: " /\ sse_events[i].end = "\n\n"
    /\ Len(sse_events) <= Len(CompleteBody)
    /\ sse_events = SubSeq(CompleteBody, 1, Len(sse_events))
    /\ Len(sse_events) > 1 + Len(NonEmptyChunks) => TurnExhausted

\* C29 witness: the complete body of a response whose turn raised after a
\* chunk: role chunk, the chunk, the error text, final chunk and [DONE].
C29_Witness ==
    /\ ended = "error"
    /\ Len(yielded) = 2
    /\ sse_events = CompleteBody
    /\ Len(sse_events) = 5

\* The step is a stream request: self.llm.astream(self.messages) at the top
\* of the loop.
IsStreamRequest == pc = "request" /\ pc' = "streaming"

\* C30: every stream request is made over the whole history as it is at
\* that moment, which the request leaves as it is. Its first message is the
\* system prompt built from the tool names. Its last message is the user
\* message of the turn at the first request of a turn, and at a later one
\* the system message the tool handler appended after the assistant message
\* of the previous cycle; it is never an assistant message.
C30_StreamRequestIsOverFullHistory ==
    [][IsStreamRequest =>
          LET last == messages[Len(messages)]
          IN  /\ reqLen' = Append(reqLen, Len(messages))
              /\ messages' = messages
              /\ messages[1] = SystemMessage(create_system_prompt(tool_names))
              /\ \A i \in 1..Len(tool_names) :
                    \E j \in 1..Len(messages[1].content) :
                        messages[1].content[j] = <<"tool", tool_names[i][1][2]>>
              /\ IF reqLen = <<>>
                 THEN /\ Len(messages) = turnLen + 1
                      /\ \E user_input \in UserInputs : last = HumanMessage(user_input)
                 ELSE /\ Len(messages) = reqLen[Len(reqLen)] + 2
                      /\ messages[Len(messages) - 1].role = "assistant"
                      /\ last.role = "system"
              /\ last.role # "assistant"]_vars

\* C30 witness: the second stream request of a turn has been made, over a
\* history that ends with the system message of the first cycle's tool
\* outcome.
C30_Witness ==
    /\ pc = "streaming"
    /\ Len(reqLen) = 2
    /\ Len(messages) = reqLen[2]
    /\ messages[Len(messages)].role = "system"
    /\ messages[Len(messages) - 1].role = "assistant"
    /\ messages[Len(messages) - 2].role = "user"

\* C31: the dispatcher does not enforce schema before execute. Whatever the
\* cache holds and whatever was requested before, the execute-request of a
\* cycle for tool N with arguments A is passed to execute_tool: a connected
\* client makes exactly the round-trip call_tool(N, A), one that is not
\* connected raises before any round-trip; the cache is left as it is, and
\* the outcome is recorded as for any execute-request, by the assistant
\* message and one system message, and the model is queried again.
C31_ExecuteNeedsNoSchemaRequest ==
    [][(IsStreamEnd /\ IsExecuteRequest(response_content)) =>
           LET N == RequestedTool(response_content)
               A == ObjectIn(response_content).obj["arguments"]
           IN  /\ session =>
                     /\ Len(calls') = Len(calls) + 1
                     /\ calls'[Len(calls')].op = "call_tool"
                     /\ calls'[Len(calls')].name = N
                     /\ calls'[Len(calls')].args = A
                     /\ SubSeq(calls', 1, Len(calls)) = calls
               /\ ~session => calls' = calls
               /\ tools_cache' = tools_cache
               /\ Len(messages') = Len(messages) + 2
               /\ messages'[Len(messages) + 1] = AIMessage(response_content)
               /\ messages'[Len(messages) + 2].role = "system"
               /\ messages'[Len(messages) + 2].content[1] \in
                      {<<"sys", "This is the result of executing '">>,
                       <<"sys", "Error executing tool: ">>}
               /\ pc' = "request"
      ]_vars

\* C31 witness: in the first cycle of the session's first turn, with an
\* empty cache and no schema-request ever made, add was executed and its
\* result recorded.
C31_Witness ==
    /\ turnLen = 1
    /\ Cycles = 1
    /\ pc = "request"
    /\ tools_cache = EmptyObj
    /\ calls = <<CallTool(Str("add"), <<LB, KV, RB>>, "answered")>>
    /\ Len(messages) = 4
    /\ messages[4].content[1] = <<"sys", "This is the result of executing '">>

\* What the handler appended in a step that ends a stream: the messages
\* after the assistant message the session appends before it calls it.
AppendedByHandler == SubSeq(messages', Len(messages) + 2, Len(messages'))

\* C32: the handler changes the history in step with its return value. It
\* returns the continue signal (the loop goes on to the next request) if and
\* only if it appended exactly one message; when it does not, it appended
\* nothing; it never appends more than one message, and what it appends is
\* a system message. The history before its call is kept.
C32_HistoryMovesWithReturnValue ==
    [][IsStreamEnd =>
          /\ SubSeq(messages', 1, Len(messages)) = messages
          /\ messages'[Len(messages) + 1] = AIMessage(response_content)
          /\ Len(AppendedByHandler) <= 1
          /\ \A i \in 1..Len(AppendedByHandler) : AppendedByHandler[i].role = "system"
          /\ pc' = "request" <=> Len(AppendedByHandler) = 1
          /\ pc' # "request" => (pc' = "idle" /\ AppendedByHandler = <<>>)
      ]_vars

\* C32 witness: the first handler was given a schema-request without a
\* tool name: it returned no-continue and the history ends with the
\* assistant message.
C32_Witness ==
    /\ pc = "idle"
    /\ ended = "final"
    /\ Len(messages) = 3
    /\ messages[3] = AIMessage(Concat(SchemaNoName))
    /\ console[Len(console) - 2] = <<"console", "Error in tool request extraction: ">>

\* The calls of execute_tool the session's handler has made in the turn:
\* those that made their round-trip, and those that raised "Not connected"
\* before it, which leave their error as a system message.
ExecuteToolCalls ==
    Cardinality({i \in 1..Len(calls) : calls[i].op = "call_tool"})
        + Cardinality({i \in (turnLen + 1)..Len(messages) :
                           messages[i] = SystemMessage(<<<<"sys", "Error executing tool: ">>>>
                                                           \o NotConnected)})
\* The completed cycles of the turn whose assistant text holds a well-formed
\* execute-request, whatever surrounds it.
EmittedExecuteRequests ==
    Cardinality({i \in 1..Cycles :
                     /\ CycleDone(i)
                     /\ \E e \in ExecuteRequests : \E k \in 0..Len(AssistantText(i)) :
                            EmbedsAt(AssistantText(i), e.text, k)})

\* C33 (as claimed): between two cycles, the number of execute_tool calls of
\* the turn equals the number of well-formed execute-requests the model
\* emitted in it.
C33_OneExecuteCallPerEmittedRequest ==
    pc \in {"request", "idle"} => ExecuteToolCalls = EmittedExecuteRequests

\* C33 (amended): the step that ends a cycle makes at most one registry
\* round-trip. When the text between the first '{' and the last '}' of the
\* assistant text is a well-formed execute-request for N with A,
\* execute_tool is called exactly once: a connected client makes the one
\* round-trip call_tool(N, A), answered or not, and one that is not
\* connected makes none and leaves "Not connected" as the error. When it is
\* a schema-request, there is at most one list_tools round-trip, none on a
\* cached name or a client that is not connected. Every other text, one with
\* an execute-request between prose with braces included, makes none.
C33_OneRegistryOperationPerRequest ==
    [][IsStreamEnd =>
          LET made == SubSeq(calls', Len(calls) + 1, Len(calls'))
          IN  /\ SubSeq(calls', 1, Len(calls)) = calls
              /\ Len(made) <= 1
              /\ IsExecuteRequest(response_content) =>
                    /\ session =>
                          /\ Len(made) = 1
                          /\ made[1].op = "call_tool"
                          /\ made[1].name = RequestedTool(response_content)
                          /\ made[1].args = ObjectIn(response_content).obj["arguments"]
                    /\ ~session =>
                          /\ made = <<>>
                          /\ messages'[Len(messages')] =
                                 SystemMessage(<<<<"sys", "Error executing tool: ">>>>
                                                   \o NotConnected)
              /\ IsSchemaRequest(response_content) =>
                    /\ \A i \in 1..Len(made) : made[i].op = "list_tools"
                    /\ (~session \/ RequestedTool(response_content) \in DOMAIN tools_cache)
                           => made = <<>>
              /\ ~IsExecuteRequest(response_content) =>
                    \A i \in 1..Len(made) : made[i].op # "call_tool"
              /\ ~IsToolRequest(response_content) => made = <<>>
      ]_vars

\* C33 witness: the call_tool of an execute-request raised, and the cycle
\* ended with that one round-trip and its error recorded.
C33_Witness ==
    /\ CycleDone(1)
    /\ IsExecuteRequest(AssistantText(1))
    /\ Len(calls) = 1
    /\ calls[1].op = "call_tool"
    /\ calls[1].did = "raised"
    /\ pc = "request"

\* Both sessions are between the same two cycles of the same turn, or have
\* both left its loop.
InStep ==
    /\ reqLen # <<>>
    /\ pc \in {"request", "idle"}
    /\ buffered.cycles = Len(reqLen)

IsUnknownRequest(text) ==
    /\ HasToolRequestJSON(text)
    /\ ObjectIn(text).obj["tool_request"] \notin {Str("schema"), Str("execute")}

\* C35: when the assistant text of a cycle holds a JSON object whose
\* tool_request is neither "schema" nor "execute", the handler appends a
\* system message after the assistant message and the turn goes on to query
\* the model again.
C35_UnknownRequestIsFedBack ==
    [][(IsStreamEnd /\ IsUnknownRequest(response_content)) =>
           /\ Len(messages') = Len(messages) + 2
           /\ messages'[Len(messages')].role = "system"
           /\ pc' = "request"
      ]_vars

\* The step is a call of get_tool_schema, logged as the last of ops'.
IsSchemaLookup ==
    /\ Len(ops') = Len(ops) + 1
    /\ ops'[Len(ops')].op = "get_tool_schema"
\* A lookup of the name has raised before.
FailedBefore(name) ==
    \E i \in 1..Len(ops) :
        ops[i].op = "get_tool_schema" /\ ops[i].name = name /\ ops[i].raised

\* C36: a failed schema lookup is never cached. A get_tool_schema that
\* raises (the name is not listed, the round-trip raises, the client is not
\* connected) leaves tools_cache as it is, and the cache holds a name only
\* with the schema a lookup found. A later lookup of a name whose lookup
\* failed before is not answered from memory: on a connected client it
\* makes its list_tools round-trip, and when the server now lists the tool
\* it returns the schema and caches it.
C36_FailedLookupIsNotCached ==
    [][IsSchemaLookup =>
          LET e == ops'[Len(ops')]
          IN  /\ e.raised => tools_cache' = tools_cache
              /\ \A name \in DOMAIN tools_cache' : tools_cache'[name] = SchemaOf(name)
              /\ (FailedBefore(e.name) /\ e.name \notin DOMAIN tools_cache) =>
                    /\ session =>
                          /\ Len(e.made) = 1
                          /\ e.made[1].op = "list_tools"
                    /\ ~session => e.err = NotConnected
                    /\ ~e.raised =>
                          /\ e.value = SchemaOf(e.name)
                          /\ tools_cache' = Put(tools_cache, e.name, e.value)
      ]_vars

\* C36 witness: the schema of add was looked up before the client was
\* connected and before the server listed the tool, and failed both times;
\* the third lookup asked the registry once more and found it.
C36_Witness ==
    /\ Len(ops) = 4
    /\ ops[1].op = "get_tool_schema" /\ ops[1].name = Str("add")
    /\ ops[1].err = NotConnected
    /\ ops[2].op = "connect" /\ ~ops[2].raised
    /\ ops[3].op = "get_tool_schema" /\ ops[3].name = Str("add")
    /\ ops[3].err = ToolNotFound(Str("add"))
    /\ ops[4].op = "get_tool_schema" /\ ops[4].name = Str("add")
    /\ ~ops[4].raised
    /\ ops[4].made = <<ListTools("answered")>>
    /\ tools_cache = Put(EmptyObj, Str("add"), SchemaOf(Str("add")))

\* The step is a call of one of the three registry operations.
IsRegistryOperation ==
    /\ Len(ops') = Len(ops) + 1
    /\ ops'[Len(ops')].op \in {"get_tool_names", "get_tool_schema", "execute_tool"}

\* C37: on a client that is not connected (never connected, or closed)
\* every registry operation raises "Not connected to MCP server":
\* get_tool_names, execute_tool and get_tool_schema, for every tool name,
\* the names whose schema was cached while connected included.
C37_UnconnectedClientFailsEveryOperation ==
    [][(IsRegistryOperation /\ ~session) =>
          /\ ops'[Len(ops')].raised
          /\ ops'[Len(ops')].err = NotConnected
          /\ ops'[Len(ops')].made = <<>>
      ]_vars

\* The calls of get_mcp_client that returned a client.
HandedOut == {i \in 1..Len(ops) : ops[i].op = "get_mcp_client" /\ ~ops[i].raised}

====
